---- MODULE Spec2Model ----
(***************************************************************************)
(* txn2/pvci: the PVC injector.  CreatePVC (src/pvci.go:675-1029) drives    *)
(* one provisioning workflow against the Kubernetes API (claims "vol" and   *)
(* "vol-src", job "vol-injector") and an S3 listing; CreatePVCHandler and   *)
(* CreatePVCAsyncHandler are its two HTTP entry points.  Every gateway      *)
(* call is one atomic round trip and one step of the model; the cluster's   *)
(* controllers (binder, job controller, finalizer removal) and other        *)
(* workflow runs may act between two calls.                                 *)
(***************************************************************************)
EXTENDS Integers, Sequences, FiniteSets, TLC

\* ------------------------------------------------------------------ bounds
MaxObjects == 2        \* longest object listing drawn for one GetSize call
MaxCount == 1          \* cap of the job's succeeded / failed pod counters

\* ------------------------------------------------------- program constants
AvgMPS == 13                 \* default of AVG_MPS
VolumeOveragePct == 25       \* default of VOLUME_OVERAGE_PCT
BytesPerMB == 1048576        \* divisor of the run estimate
JobAttemptInterval == 5      \* seconds between two job checks
MinJobAttempts == 6          \* floor of maxAttempts in checkJob

retrySecs == <<1, 2, 2, 4, 4, 4, 8, 8, 8, 8, 8>>

\* ------------------------------------------------------------------- names
Name == "vol"                \* pvcRequestConfig.Name
SrcName == "vol-src"         \* fmt.Sprintf("%s-src", Name)
JobName == "vol-injector"    \* fmt.Sprintf("%s-injector", Name)
ClaimNames == {Name, SrcName}

Runs == {1, 2}               \* HTTP requests for the one (namespace, name)
ObjSizes == {4500000, 150000000}

NoErr == ""
ErrBody == "unable to read post body"
ErrBound == "requested PVC is unable to reach Bound phase"
ErrJobTime == "job is unable to complete in allotted time"
ErrJobFailed == "job failed"
ErrGateway == "gateway error"
ErrNotFound == "not found"
ErrExists == "already exists"
ErrList == "object error"
ErrClient == "minio client error"
ErrFoundName == "found a PVC named vol"
ErrFoundSrc == "found a PVC named vol-src"

VARIABLES
    pvc,        \* claim name -> the claim object held by the cluster
    job,        \* the copy job object held by the cluster
    bucket,     \* what listing the request's bucket / prefix yields
    active,     \* the requests that arrive in this behaviour
    pc,         \* run -> position of its handler / CreatePVC
    mode,       \* run -> "sync" | "async" (entry point that took the request)
    response,   \* run -> HTTP response sent ([code |-> 0] while none)
    err,        \* run -> error CreatePVC returned ("" while none)
    step,       \* run -> the step at which CreatePVC returned
    size,       \* run -> [cnt, sz] of GetSize
    poll,       \* run -> state of the running checkPVC / checkJob call
    calls,      \* run -> listing and create / delete / patch calls issued, in order
    seen,       \* run -> what the run's gets have observed
    logs,       \* run -> error log lines of the cleanup paths
    pods,       \* phases of the pods labelled pvci.txn2.com/vol=<name>, in list order
    status,     \* the last GetStatus call: its report and what it was answered
    cfg,        \* the API's Config: VolumeOveragePercent and AvgMPS
    req         \* run -> the PVCRequestConfig bound from its request body

vars == <<pvc, job, bucket, active, pc, mode, response, err, step, size, poll, calls, seen, logs,
          pods, status, cfg, req>>

\* PersistentVolumeClaimSpec: AccessModes, DataSource.Name, the storage request.
NoClaimSpec == [accessModes |-> <<>>, dataSource |-> "", storage |-> 0]
\* The job's pod volume: PersistentVolumeClaimVolumeSource.
NoJobSpec == [claimName |-> "", readOnly |-> FALSE]
\* ObjectMeta: Name, Labels, Annotations.
NoObjectMeta == [name |-> "", labels |-> {}, annotations |-> {}]
NoClaim == [exists |-> FALSE, phase |-> "", terminating |-> FALSE, owner |-> 0,
            spec |-> NoClaimSpec, meta |-> NoObjectMeta]
\* env: the Env of the job's container, as (name, value) pairs.
NoJob == [exists |-> FALSE, succeeded |-> 0, failed |-> 0, owner |-> 0, spec |-> NoJobSpec,
          env |-> <<>>]
\* StatusReport{}
NoReport == [InjectorHasError |-> FALSE, InjectorError |-> "", InjectorState |-> "",
             PVCHasError |-> FALSE, PVCError |-> "", PVCStatus |-> ""]
\* No GetStatus call yet. report, err: what the last call returned; calls:
\* the gateway calls it issued; podCount, listErr, claimErr: what there was
\* to find and what the lookups answered; afterDone: a run had returned nil;
\* changed: a resource has changed since; again: the call before it saw the
\* same resources; prev: that call's report; sameAnswers: and had the same
\* lookup errors.
NoStatus == [made |-> FALSE, report |-> NoReport, err |-> NoErr, calls |-> <<>>,
             podCount |-> 0, listErr |-> NoErr, claimErr |-> NoErr, afterDone |-> FALSE,
             changed |-> FALSE, again |-> FALSE, prev |-> NoReport, sameAnswers |-> FALSE]
NoResponse == [code |-> 0, body |-> ""]
NoSize == [cnt |-> 0, sz |-> 0, runEst |-> 0, qty |-> 0]
NoPoll == [name |-> "", attempt |-> 0, maxAttempts |-> 0, checks |-> 0, sleeps |-> 0, secs |-> 0]
NoSeen == [srcBound |-> FALSE, jobOK |-> FALSE, finBound |-> FALSE,
           valExisted |-> FALSE, valFound |-> FALSE, srcRejected |-> FALSE,
           jobFailed |-> FALSE, srcWaitErr |-> NoErr, jobErr |-> NoErr,
           finErr |-> NoErr, finWaitOK |-> FALSE,
           jobBoth |-> FALSE,
           srcGone |-> FALSE, pollErr |-> NoErr, jobWaitErr |-> NoErr, nameErred |-> FALSE, srcErred |-> FALSE,
           sized |-> FALSE, sizeRet |-> [cnt |-> 0, sz |-> 0, err |-> NoErr]]

\* ---------------------------------------------------------- pure functions
CeilDiv(a, b) == (a + b - 1) \div b
Max(a, b) == IF a > b THEN a ELSE b

\* The lazy listing of ListObjectsV2: objects with a size, or an error entry.
Objects == [size : ObjSizes, err : {NoErr}] \cup [size : {0}, err : {ErrList}]
RECURSIVE SeqsUpTo(_, _)
SeqsUpTo(S, n) ==
    IF n = 0 THEN {<<>>}
    ELSE LET shorter == SeqsUpTo(S, n - 1)
         IN shorter \cup {Append(s, x) : s \in {t \in shorter : Len(t) = n - 1}, x \in S}
Listings == SeqsUpTo(Objects, MaxObjects)

RECURSIVE GetSizeLoopSkippingErrors(_, _, _, _)
GetSizeLoopSkippingErrors(listing, i, objCount, totalSize) ==
    IF i > Len(listing) THEN [cnt |-> objCount, sz |-> totalSize, err |-> NoErr]
    ELSE IF listing[i].err # NoErr
         THEN GetSizeLoopSkippingErrors(listing, i + 1, objCount, totalSize)
         ELSE GetSizeLoopSkippingErrors(listing, i + 1, objCount + 1, totalSize + listing[i].size)

\* GetSize: the range loop over the object channel (cnt and sz accumulate
\* until the first entry with an error, which is returned with them).
RECURSIVE GetSizeLoop(_, _, _, _)
GetSizeLoop(listing, i, objCount, totalSize) ==
    IF i > Len(listing) THEN [cnt |-> objCount, sz |-> totalSize, err |-> NoErr]
    ELSE IF listing[i].err # NoErr
         THEN [cnt |-> objCount, sz |-> totalSize, err |-> listing[i].err]
         ELSE GetSizeLoop(listing, i + 1, objCount + 1, totalSize + listing[i].size)

GetSize(clientFails, listing) ==
    IF clientFails THEN [cnt |-> 0, sz |-> 0, err |-> ErrClient]
    ELSE GetSizeLoop(listing, 1, 0, 0)

RunEstRoundedUp(sz) == CeilDiv(sz, cfg.AvgMPS * BytesPerMB)

\* runEst := sz / (int64(a.AvgMPS) * 1048576)   (integer division)
RunEst(sz) == sz \div (cfg.AvgMPS * BytesPerMB)

\* checkJob's attempt bound: maxTime = 1.5 * timeout;
\* maxAttempts = ceil(maxTime / 5) when maxTime > 5, else 1; at least 6.
MaxAttempts(timeout) ==
    LET twiceMaxTime == 3 * timeout
        computed == IF twiceMaxTime > 2 * JobAttemptInterval
                    THEN CeilDiv(twiceMaxTime, 2 * JobAttemptInterval)
                    ELSE 1
    IN Max(computed, MinJobAttempts)

\* ----------------------------------------------------- float64 arithmetic
\* A natural number is held as its digits in base 2^15, least significant
\* first (products of two digits stay below 2^31), a float64 as [m, e],
\* standing for m * 2^e with m a natural number of at most 53 bits.
LimbBits == 15
Limb == 32768

RECURSIVE Pow2(_)
Pow2(k) == IF k = 0 THEN 1 ELSE 2 * Pow2(k - 1)

RECURSIVE Limbs(_)
Limbs(n) == IF n = 0 THEN <<>> ELSE <<n % Limb>> \o Limbs(n \div Limb)

RECURSIVE LVal(_)
LVal(a) == IF a = <<>> THEN 0 ELSE a[1] + Limb * LVal(Tail(a))

RECURSIVE LAdd(_, _, _)
LAdd(a, b, carry) ==
    IF a = <<>> /\ b = <<>> THEN (IF carry = 0 THEN <<>> ELSE <<carry>>)
    ELSE LET t == (IF a = <<>> THEN 0 ELSE a[1]) + (IF b = <<>> THEN 0 ELSE b[1]) + carry
         IN <<t % Limb>> \o LAdd(IF a = <<>> THEN <<>> ELSE Tail(a),
                                 IF b = <<>> THEN <<>> ELSE Tail(b), t \div Limb)

RECURSIVE LMulDigit(_, _, _)
LMulDigit(a, d, carry) ==
    IF a = <<>> THEN (IF carry = 0 THEN <<>> ELSE <<carry>>)
    ELSE LET t == a[1] * d + carry
         IN <<t % Limb>> \o LMulDigit(Tail(a), d, t \div Limb)

RECURSIVE LMul(_, _)
LMul(a, b) ==
    IF a = <<>> \/ b = <<>> THEN <<>>
    ELSE LAdd(LMulDigit(b, a[1], 0), <<0>> \o LMul(Tail(a), b), 0)

\* Long division by an integer 0 < q < 2^16: quotient digits and remainder.
DivStep(hi, d, q) ==
    [quot |-> <<(hi.rem * Limb + d) \div q>> \o hi.quot, rem |-> (hi.rem * Limb + d) % q]
RECURSIVE LDiv(_, _)
LDiv(a, q) ==
    IF a = <<>> THEN [quot |-> <<>>, rem |-> 0]
    ELSE DivStep(LDiv(Tail(a), q), a[1], q)

\* The binary digits of a, least significant first, without leading zeros.
ToBits(a) ==
    LET all == [i \in 1..(LimbBits * Len(a)) |->
                   (a[((i - 1) \div LimbBits) + 1] \div Pow2((i - 1) % LimbBits)) % 2]
        ones == {i \in 1..(LimbBits * Len(a)) : all[i] = 1}
    IN IF ones = {} THEN <<>>
       ELSE SubSeq(all, 1, CHOOSE i \in ones : \A j \in ones : j <= i)

RECURSIVE BitsVal(_)
BitsVal(b) == IF b = <<>> THEN 0 ELSE b[1] + 2 * BitsVal(Tail(b))

FromBits(b) ==
    LET n == (Len(b) + LimbBits - 1) \div LimbBits
        hiOf(j) == IF LimbBits * j < Len(b) THEN LimbBits * j ELSE Len(b)
    IN [j \in 1..n |-> BitsVal(SubSeq(b, LimbBits * (j - 1) + 1, hiOf(j)))]

Zeros(k) == [i \in 1..k |-> 0]
ShiftLeft(a, k) == IF a = <<>> THEN <<>> ELSE FromBits(Zeros(k) \o ToBits(a))

\* b + 1 on binary digits.
Inc(b) ==
    IF \A i \in 1..Len(b) : b[i] = 1 THEN Zeros(Len(b)) \o <<1>>
    ELSE LET j == CHOOSE j \in 1..Len(b) : b[j] = 0 /\ \A i \in 1..(j - 1) : b[i] = 1
         IN [i \in 1..Len(b) |-> IF i < j THEN 0 ELSE IF i = j THEN 1 ELSE b[i]]

Mantissa == 53
\* Round-to-nearest-even of a to Mantissa bits (sticky: a non-zero part below
\* a was cut off already): [m, e], a being about m * 2^e.
RoundBits(a, sticky) ==
    LET b == ToBits(a)
        k == Len(b) - Mantissa
    IN IF k <= 0 THEN [m |-> a, e |-> 0]
       ELSE LET kept == SubSeq(b, k + 1, Len(b))
                rest == sticky \/ \E i \in 1..(k - 1) : b[i] = 1
                up == b[k] = 1 /\ (rest \/ kept[1] = 1)
                m == IF up THEN Inc(kept) ELSE kept
            IN IF Len(m) > Mantissa
               THEN [m |-> FromBits(Tail(m)), e |-> k + 1]
               ELSE [m |-> FromBits(m), e |-> k]

FZero == [m |-> <<>>, e |-> 0]
FromInt(n) == [m |-> Limbs(n), e |-> 0]

\* The float64 nearest to p / q, for integers p >= 0 and 0 < q < 2^16.
Precision == 90
FDiv(p, q) ==
    IF p = 0 THEN FZero
    ELSE LET d == LDiv(ShiftLeft(Limbs(p), Precision), q)
             r == RoundBits(d.quot, d.rem > 0)
         IN [m |-> r.m, e |-> r.e - Precision]

FMul(x, y) ==
    IF x.m = <<>> \/ y.m = <<>> THEN FZero
    ELSE LET r == RoundBits(LMul(x.m, y.m), FALSE)
         IN [m |-> r.m, e |-> x.e + y.e + r.e]

\* 1 + x, for a float64 x >= 0 with x.e <= 0.
FAddOne(x) ==
    IF x.m = <<>> THEN FromInt(1)
    ELSE LET r == RoundBits(LAdd(ShiftLeft(<<1>>, 0 - x.e), x.m, 0), FALSE)
         IN [m |-> r.m, e |-> x.e + r.e]

\* int64(math.Ceil(x)), for x >= 0
FCeil(x) ==
    LET b == ToBits(x.m) IN
    IF x.e >= 0 THEN LVal(ShiftLeft(x.m, x.e))
    ELSE IF 0 - x.e >= Len(b) THEN (IF b = <<>> THEN 0 ELSE 1)
    ELSE LVal(FromBits(SubSeq(b, 1 - x.e, Len(b))))
            + (IF \E i \in 1..(0 - x.e) : b[i] = 1 THEN 1 ELSE 0)

\* The constant 1.048576 as a float64: 1048576 / 1000000 = 16384 / 15625.
MiBPerMB == FDiv(16384, 15625)

\* "MiB/MB Conversion plus % overage": pctOver := 1 + float64(pct) / 100;
\* int64(math.Ceil((float64(sz) * 1.048576) * pctOver))
StorageQty(sz, pct) ==
    LET pctOver == FAddOne(FDiv(pct, 100))
    IN FCeil(FMul(FMul(FromInt(sz), MiBPerMB), pctOver))

\* ---------------------------------------------------------------- requests
Service == "pvci"
Version == "0.0.0"
\* The S3Config of a request body; its VolConfig names the claim Name.
DefaultRequest == [S3Endpoint |-> "minio:9000", S3SSL |-> FALSE, S3Bucket |-> "datasets",
                   S3Prefix |-> "vol", S3Key |-> "AK1", S3Secret |-> "SK1"]
S3Keys == {"AK1", "AK2"}
S3Secrets == {"SK1", "SK2"}

\* objStoreEp: the value of MC_HOST_objstore.
ObjStoreEp(rq) ==
    (IF rq.S3SSL = TRUE THEN "https://" ELSE "http://")
        \o rq.S3Key \o ":" \o rq.S3Secret \o "@" \o rq.S3Endpoint

\* The "pvci.txn2.com/origin" annotation.
OriginWithCredentials(rq) == ObjStoreEp(rq) \o "/" \o rq.S3Bucket \o "/" \o rq.S3Prefix
Origin(rq) == rq.S3Endpoint \o "/" \o rq.S3Bucket \o "/" \o rq.S3Prefix

\* Labels and Annotations of both claims, as sets of (key, value) pairs;
\* strconv.FormatInt(_, 10) writes the decimal digits.
ClaimLabels ==
    {<<"pvci.txn2.com/service", Service>>, <<"pvci.txn2.com/version", Version>>}
ClaimAnnotations(rq, sz, objCount) ==
    {<<"pvci.txn2.com/requested_size", ToString(sz)>>,
     <<"pvci.txn2.com/object_count", ToString(objCount)>>,
     <<"pvci.txn2.com/origin", Origin(rq)>>}

\* srcPVCSpecification.ObjectMeta
SrcPVCObjectMeta(rq, sz, objCount) ==
    [name |-> SrcName, labels |-> ClaimLabels,
     annotations |-> ClaimAnnotations(rq, sz, objCount)]
\* pvcSpecification.ObjectMeta
PvcObjectMeta(rq, sz, objCount) ==
    [name |-> Name, labels |-> ClaimLabels,
     annotations |-> ClaimAnnotations(rq, sz, objCount)]
\* The Env of the job's one container.
JobContainerEnv(rq) == <<<<"MC_HOST_objstore", ObjStoreEp(rq)>>>>

\* ---------------------------------------------------------------- payloads
\* The bucket of the two racing requests, of the request watched by status
\* queries, and the payload sizes, overage percentages and transfer rates
\* of the sizing runs.
RaceBucket == <<[size |-> 150000000, err |-> NoErr], [size |-> 150000000, err |-> NoErr]>>
StatusBucket == <<[size |-> 4500000, err |-> NoErr]>>
PayloadSizes == {0, 1, 15625, 390625, 703125, 4500000, 9000000, 150000000,
                 318976819, 999999937}
OveragePcts == {0, 10, 25, 100}
Rates == {1, 13, 50}
Buckets ==
    Listings \cup {RaceBucket, StatusBucket}
        \cup {<<[size |-> s, err |-> NoErr]>> : s \in PayloadSizes}

\* storageQtyBuffer for every payload and percentage above, evaluated once.
StorageQtys ==
    {<<GetSize(FALSE, b).sz, pct, StorageQty(GetSize(FALSE, b).sz, pct)>> :
        b \in Buckets, pct \in OveragePcts}
StorageQtyBuffer(sz, pct) == (CHOOSE t \in StorageQtys : t[1] = sz /\ t[2] = pct)[3]

\* ------------------------------------------------------------------- Init
InitCommon ==
    /\ job = NoJob
    /\ pc = [r \in Runs |-> "idle"]
    /\ mode = [r \in Runs |-> "none"]
    /\ response = [r \in Runs |-> NoResponse]
    /\ err = [r \in Runs |-> NoErr]
    /\ step = [r \in Runs |-> "none"]
    /\ size = [r \in Runs |-> NoSize]
    /\ poll = [r \in Runs |-> NoPoll]
    /\ calls = [r \in Runs |-> <<>>]
    /\ seen = [r \in Runs |-> NoSeen]
    /\ logs = [r \in Runs |-> {}]
    /\ pods = <<>>
    /\ status = NoStatus

\* The configuration main builds from the environment's defaults.
DefaultConfig == [VolumeOveragePercent |-> VolumeOveragePct, AvgMPS |-> AvgMPS]

\* Claims that may be in the namespace when the first request arrives.
OtherClaim == [exists |-> TRUE, phase |-> "Bound", terminating |-> FALSE, owner |-> 0,
               spec |-> [NoClaimSpec EXCEPT !.accessModes = <<"ReadWriteOnce">>],
               meta |-> [NoObjectMeta EXCEPT !.name = "other"]]
InitialClaims ==
    {[n \in ClaimNames |-> NoClaim],
     [n \in ClaimNames |-> IF n = Name THEN OtherClaim ELSE NoClaim],
     [n \in ClaimNames |-> IF n = SrcName THEN OtherClaim ELSE NoClaim]}

\* One request, any bucket, any of the initial namespaces.
Init ==
    /\ InitCommon
    /\ pvc \in InitialClaims
    /\ bucket \in Listings
    /\ active = {1}
    /\ cfg = DefaultConfig
    /\ req = [r \in Runs |-> DefaultRequest]

\* Two requests for the same name against an empty namespace.
InitRace ==
    /\ InitCommon
    /\ pvc = [n \in ClaimNames |-> NoClaim]
    /\ bucket \in {RaceBucket, <<[size |-> 0, err |-> ErrList]>>}
    /\ active = Runs
    /\ cfg = DefaultConfig
    /\ req = [r \in Runs |-> DefaultRequest]

\* ------------------------------------------------- the cluster's gateway
\* pvcClient.Get: on an error client-go hands back an empty object, so
\* "existing != nil && existing.Name != ''" is true only for a claim returned.
Get(n, fails) ==
    IF fails THEN [err |-> ErrGateway, found |-> FALSE, phase |-> ""]
    ELSE IF ~pvc[n].exists THEN [err |-> ErrNotFound, found |-> FALSE, phase |-> ""]
    ELSE [err |-> NoErr, found |-> TRUE, phase |-> pvc[n].phase]

\* pvcClient.Create: the API server keeps names unique in a namespace.
CreateErr(n, fails) ==
    IF pvc[n].exists THEN ErrExists
    ELSE IF fails THEN ErrGateway ELSE NoErr

\* jobsClient.Create
CreateJobErr(fails) ==
    IF job.exists THEN ErrExists
    ELSE IF fails THEN ErrGateway ELSE NoErr

\* pvcClient.Delete / jobsClient.Delete
DeleteErr(exists, fails) ==
    IF ~exists THEN ErrNotFound
    ELSE IF fails THEN ErrGateway ELSE NoErr

\* pvcClient.Patch
PatchErr(n, fails) ==
    IF ~pvc[n].exists THEN ErrNotFound
    ELSE IF fails THEN ErrGateway ELSE NoErr

\* --------------------------------------------------------------- helpers
\* A step that changes a claim, the job or a pod after a status call.
Touch ==
    status' = IF status.made /\ <<pvc', job', pods'>> # <<pvc, job, pods>>
              THEN [status EXCEPT !.changed = TRUE]
              ELSE status

Call(r, c) == calls' = [calls EXCEPT ![r] = Append(@, c)]

\* CreatePVC returns e (nil when e is "") from the step s.
ReturnFrom(r, e, s) ==
    /\ pc' = [pc EXCEPT ![r] = IF e = NoErr THEN "Done" ELSE "Failed"]
    /\ err' = [err EXCEPT ![r] = e]
    /\ step' = [step EXCEPT ![r] = s]

Goto(r, next) ==
    /\ pc' = [pc EXCEPT ![r] = next]
    /\ UNCHANGED <<err, step>>

\* ---------------------------------------------------------- entry points
\* CreatePVCHandler up to the call of CreatePVC on the caller's goroutine.
CreatePVCHandler(r) ==
    /\ r \in active
    /\ pc[r] = "idle"
    /\ \E bodyOK \in BOOLEAN :
          IF bodyOK
          THEN /\ pc' = [pc EXCEPT ![r] = "valName"]
               /\ UNCHANGED response
          ELSE /\ pc' = [pc EXCEPT ![r] = "rejected"]
               /\ response' = [response EXCEPT ![r] = [code |-> 400, body |-> ErrBody]]
    /\ mode' = [mode EXCEPT ![r] = "sync"]
    /\ UNCHANGED <<pvc, job, bucket, cfg, req, active, err, step, size, poll, calls, seen, logs, pods>>
    /\ Touch

RespondOK(e) == [code |-> 200, body |-> ""]
RespondErr(e) == IF e # NoErr THEN [code |-> 400, body |-> e] ELSE [code |-> 200, body |-> ""]

\* The body of the response CreatePVCHandler sends once CreatePVC returned.
SyncResponse(e) ==
    IF e # NoErr THEN [code |-> 400, body |-> e] ELSE [code |-> 200, body |-> ""]

\* CreatePVCHandler after CreatePVC has returned.
CreatePVCHandlerRespond(r) ==
    /\ mode[r] = "sync"
    /\ pc[r] \in {"Done", "Failed"}
    /\ response[r] = NoResponse
    /\ response' = [response EXCEPT ![r] = SyncResponse(err[r])]
    /\ UNCHANGED <<pvc, job, bucket, cfg, req, active, pc, mode, err, step, size, poll, calls, seen, logs, pods>>
    /\ Touch

\* CreatePVCAsyncHandler up to and including "go func() { ... }()".
CreatePVCAsyncHandler(r) ==
    /\ r \in active
    /\ pc[r] = "idle"
    /\ \E bodyOK \in BOOLEAN :
          IF bodyOK
          THEN /\ pc' = [pc EXCEPT ![r] = "valName"]
               /\ UNCHANGED response
          ELSE /\ pc' = [pc EXCEPT ![r] = "rejected"]
               /\ response' = [response EXCEPT ![r] = [code |-> 400, body |-> ErrBody]]
    /\ mode' = [mode EXCEPT ![r] = "async"]
    /\ UNCHANGED <<pvc, job, bucket, cfg, req, active, err, step, size, poll, calls, seen, logs, pods>>
    /\ Touch

\* The response CreatePVCAsyncHandler sends after the go statement.
AsyncResponse(e) == [code |-> 200, body |-> ""]

\* CreatePVCAsyncHandler's c.JSON after the go statement: the goroutine
\* may be anywhere in CreatePVC when it runs.
CreatePVCAsyncHandlerRespond(r) ==
    /\ mode[r] = "async"
    /\ pc[r] \notin {"idle", "rejected"}
    /\ response[r] = NoResponse
    /\ response' = [response EXCEPT ![r] = AsyncResponse(err[r])]
    /\ UNCHANGED <<pvc, job, bucket, cfg, req, active, pc, mode, err, step, size, poll, calls, seen, logs, pods>>
    /\ Touch

\* ------------------------------------------------------------- CreatePVC
FoundNever(existing) == FALSE
FoundUnlessNotFound(existing) == existing.found \/ existing.err = ErrGateway

\* "does the PVC exist": the error of the get is dropped.
Found(existing) == existing.found

ValidateName(r) ==
    /\ pc[r] = "valName"
    /\ \E fails \in BOOLEAN :
          LET existing == Get(Name, fails) IN
          /\ seen' = [seen EXCEPT ![r].valExisted = @ \/ pvc[Name].exists,
                                  ![r].valFound = @ \/ existing.found,
                                  ![r].nameErred = existing.err # NoErr]
          /\ IF Found(existing)
             THEN ReturnFrom(r, ErrFoundName, "validate")
             ELSE Goto(r, "valSrc")
    /\ UNCHANGED <<pvc, job, bucket, cfg, req, active, mode, response, size, poll, calls, logs, pods>>
    /\ Touch

ValidateSrc(r) ==
    /\ pc[r] = "valSrc"
    /\ \E fails \in BOOLEAN :
          LET existingSrc == Get(SrcName, fails) IN
          /\ seen' = [seen EXCEPT ![r].valExisted = @ \/ pvc[SrcName].exists,
                                  ![r].valFound = @ \/ existingSrc.found,
                                  ![r].srcErred = existingSrc.err # NoErr]
          /\ IF Found(existingSrc)
             THEN ReturnFrom(r, ErrFoundSrc, "validate")
             ELSE Goto(r, "size")
    /\ UNCHANGED <<pvc, job, bucket, cfg, req, active, mode, response, size, poll, calls, logs, pods>>
    /\ Touch

\* "get bucket size", the run estimate and the storage quantity.
Sizing(r) ==
    /\ pc[r] = "size"
    /\ \E clientFails \in BOOLEAN :
          LET res == GetSize(clientFails, bucket) IN
          /\ IF res.err # NoErr
             THEN /\ ReturnFrom(r, res.err, "size")
                  /\ UNCHANGED size
             ELSE /\ Goto(r, "createSrc")
                  /\ size' = [size EXCEPT ![r] =
                                [cnt |-> res.cnt, sz |-> res.sz, runEst |-> RunEst(res.sz),
                                 qty |-> StorageQtyBuffer(res.sz, cfg.VolumeOveragePercent)]]
          /\ calls' = [calls EXCEPT ![r] = IF clientFails THEN @ ELSE Append(@, "list")]
          /\ seen' = [seen EXCEPT ![r].sized = ~clientFails, ![r].sizeRet = res]
    /\ UNCHANGED <<pvc, job, bucket, cfg, req, active, mode, response, poll, logs, pods>>
    /\ Touch

AfterSrcCreateFailedCleaningUp(r, e) ==
    /\ pc' = [pc EXCEPT ![r] = "cleanSrc"]
    /\ err' = [err EXCEPT ![r] = e]
    /\ UNCHANGED step

\* The continuation of CreatePVC after a failed create of the staging claim.
AfterSrcCreateFailed(r, e) == ReturnFrom(r, e, "createSrc")

\* srcPVCSpecification.Spec
SrcPVCSpecification(storageQtyBuffer) ==
    [accessModes |-> <<"ReadWriteOnce">>, dataSource |-> "", storage |-> storageQtyBuffer]

\* "Create source PVC Spec" and the start of the first checkPVC.
CreateSrc(r) ==
    /\ pc[r] = "createSrc"
    /\ \E fails \in BOOLEAN :
          LET e == CreateErr(SrcName, fails) IN
          IF e # NoErr
          THEN /\ AfterSrcCreateFailed(r, e)
               /\ seen' = [seen EXCEPT ![r].srcRejected = TRUE]
               /\ UNCHANGED <<pvc, poll>>
          ELSE /\ pvc' = [pvc EXCEPT ![SrcName] =
                            [exists |-> TRUE, phase |-> "Pending",
                             terminating |-> FALSE, owner |-> r,
                             spec |-> SrcPVCSpecification(size[r].qty),
                             meta |-> SrcPVCObjectMeta(req[r], size[r].sz, size[r].cnt)]]
               /\ poll' = [poll EXCEPT ![r] = [NoPoll EXCEPT !.name = SrcName]]
               /\ Goto(r, "bindSrc")
               /\ UNCHANGED seen
    /\ Call(r, "create:" \o SrcName)
    /\ UNCHANGED <<job, bucket, cfg, req, active, mode, response, size, logs, pods>>
    /\ Touch


\* ---------------------------------------------------------------- checkPVC
\* One turn of checkPVC's loop on the poll state p, g being what getPVC
\* returns in this turn: [ret, err, poll].
CheckPVCTurnOneShort(p, g) ==
    IF p.attempt > Len(retrySecs) - 2
    THEN [ret |-> TRUE, err |-> ErrBound, poll |-> p]
    ELSE LET checked == [p EXCEPT !.sleeps = @ + 1,
                                  !.secs = @ + retrySecs[p.attempt + 1],
                                  !.checks = @ + 1]
         IN IF g.err # NoErr THEN [ret |-> TRUE, err |-> g.err, poll |-> checked]
            ELSE IF g.phase = "Bound" THEN [ret |-> TRUE, err |-> NoErr, poll |-> checked]
            ELSE [ret |-> FALSE, err |-> NoErr, poll |-> [checked EXCEPT !.attempt = @ + 1]]

CheckPVCTurnRetryingOnError(p, g) ==
    IF p.attempt > Len(retrySecs) - 1
    THEN [ret |-> TRUE, err |-> ErrBound, poll |-> p]
    ELSE LET checked == [p EXCEPT !.sleeps = @ + 1,
                                  !.secs = @ + retrySecs[p.attempt + 1],
                                  !.checks = @ + 1]
         IN IF g.err = NoErr /\ g.phase = "Bound"
            THEN [ret |-> TRUE, err |-> NoErr, poll |-> checked]
            ELSE [ret |-> FALSE, err |-> NoErr, poll |-> [checked EXCEPT !.attempt = @ + 1]]

CheckPVCTurn(p, g) ==
    IF p.attempt > Len(retrySecs) - 1
    THEN [ret |-> TRUE, err |-> ErrBound, poll |-> p]
    ELSE LET checked == [p EXCEPT !.sleeps = @ + 1,
                                  !.secs = @ + retrySecs[p.attempt + 1],
                                  !.checks = @ + 1]
         IN IF g.err # NoErr THEN [ret |-> TRUE, err |-> g.err, poll |-> checked]
            ELSE IF g.phase = "Bound" THEN [ret |-> TRUE, err |-> NoErr, poll |-> checked]
            ELSE [ret |-> FALSE, err |-> NoErr, poll |-> [checked EXCEPT !.attempt = @ + 1]]

\* What a get of claim n that returned g lets the run record.
Observe(s, n, g) ==
    IF g.err = NoErr /\ g.phase = "Bound"
    THEN IF n = SrcName THEN [s EXCEPT !.srcBound = TRUE] ELSE [s EXCEPT !.finBound = TRUE]
    ELSE s

\* What the return of a checkPVC call (turn t, called at position at) lets
\* the run record.
ObserveWait(s, at, t) ==
    IF ~t.ret THEN s
    ELSE IF at = "bindSrc" THEN [s EXCEPT !.srcWaitErr = t.err]
    ELSE [s EXCEPT !.finWaitOK = (t.err = NoErr)]

\* The claim the second checkPVC of CreatePVC is called with.
FinalWaitName == SrcName

AfterSrcWaitUnchecked(r, e) == Goto(r, "createJob")
AfterSrcWaitCleaningUp(r, e) ==
    IF e # NoErr
    THEN /\ pc' = [pc EXCEPT ![r] = "cleanSrc"]
         /\ err' = [err EXCEPT ![r] = e]
         /\ UNCHANGED step
    ELSE Goto(r, "createJob")

\* CreatePVC after its first checkPVC returned e.
AfterSrcWait(r, e) ==
    IF e # NoErr THEN ReturnFrom(r, e, "bindSrc") ELSE Goto(r, "createJob")

\* CreatePVC after its second checkPVC returned e.
AfterFinalWait(r, e) ==
    IF e # NoErr THEN ReturnFrom(r, e, "bindFin") ELSE Goto(r, "delSrc")

CheckPVC(r) ==
    /\ pc[r] \in {"bindSrc", "bindFin"}
    /\ \E fails \in BOOLEAN :
          LET p == poll[r]
              timedOut == p.attempt > Len(retrySecs) - 1
              g == Get(p.name, fails)
              t == CheckPVCTurn(p, g)
          IN /\ poll' = [poll EXCEPT ![r] = t.poll]
             /\ seen' = [seen EXCEPT ![r] =
                           ObserveWait(IF timedOut THEN @
                                       ELSE [Observe(@, p.name, g) EXCEPT !.pollErr = g.err],
                                       pc[r], t)]
             /\ UNCHANGED calls
             /\ IF t.ret
                THEN IF pc[r] = "bindSrc" THEN AfterSrcWait(r, t.err) ELSE AfterFinalWait(r, t.err)
                ELSE UNCHANGED <<pc, err, step>>
    /\ UNCHANGED <<pvc, job, bucket, cfg, req, active, mode, response, size, logs, pods>>
    /\ Touch

\* ---------------------------------------------------------------- checkJob
\* getJob
GetJob(fails) ==
    IF fails THEN [err |-> ErrGateway, succeeded |-> 0, failed |-> 0]
    ELSE IF ~job.exists THEN [err |-> ErrNotFound, succeeded |-> 0, failed |-> 0]
    ELSE [err |-> NoErr, succeeded |-> job.succeeded, failed |-> job.failed]

CheckJobTurnReadingAtTimeout(p, g) ==
    LET slept == [p EXCEPT !.sleeps = @ + 1, !.secs = @ + JobAttemptInterval]
        checked == [slept EXCEPT !.checks = @ + 1]
    IN IF g.err # NoErr THEN [ret |-> TRUE, err |-> g.err, poll |-> checked]
       ELSE IF g.failed > 0 THEN [ret |-> TRUE, err |-> ErrJobFailed, poll |-> checked]
       ELSE IF g.succeeded > 0 THEN [ret |-> TRUE, err |-> NoErr, poll |-> checked]
       ELSE IF p.attempt > p.maxAttempts
       THEN [ret |-> TRUE, err |-> ErrJobTime, poll |-> checked]
       ELSE [ret |-> FALSE, err |-> NoErr, poll |-> [checked EXCEPT !.attempt = @ + 1]]

CheckJobTurnSuccessFirst(p, g) ==
    LET slept == [p EXCEPT !.sleeps = @ + 1, !.secs = @ + JobAttemptInterval] IN
    IF p.attempt > p.maxAttempts
    THEN [ret |-> TRUE, err |-> ErrJobTime, poll |-> slept]
    ELSE LET checked == [slept EXCEPT !.checks = @ + 1]
         IN IF g.err # NoErr THEN [ret |-> TRUE, err |-> g.err, poll |-> checked]
            ELSE IF g.succeeded > 0 THEN [ret |-> TRUE, err |-> NoErr, poll |-> checked]
            ELSE IF g.failed > 0 THEN [ret |-> TRUE, err |-> ErrJobFailed, poll |-> checked]
            ELSE [ret |-> FALSE, err |-> NoErr, poll |-> [checked EXCEPT !.attempt = @ + 1]]

\* One turn of checkJob's loop: sleep, then the attempt test, then the get.
CheckJobTurn(p, g) ==
    LET slept == [p EXCEPT !.sleeps = @ + 1, !.secs = @ + JobAttemptInterval] IN
    IF p.attempt > p.maxAttempts
    THEN [ret |-> TRUE, err |-> ErrJobTime, poll |-> slept]
    ELSE LET checked == [slept EXCEPT !.checks = @ + 1]
         IN IF g.err # NoErr THEN [ret |-> TRUE, err |-> g.err, poll |-> checked]
            ELSE IF g.failed > 0 THEN [ret |-> TRUE, err |-> ErrJobFailed, poll |-> checked]
            ELSE IF g.succeeded > 0 THEN [ret |-> TRUE, err |-> NoErr, poll |-> checked]
            ELSE [ret |-> FALSE, err |-> NoErr, poll |-> [checked EXCEPT !.attempt = @ + 1]]

ObserveJob(s, g) ==
    IF g.err = NoErr /\ g.failed > 0
    THEN [s EXCEPT !.jobFailed = TRUE, !.jobBoth = g.succeeded > 0]
    ELSE IF g.err = NoErr /\ g.succeeded > 0 THEN [s EXCEPT !.jobOK = TRUE]
    ELSE s

AfterJobWaitCleaningUp(r, e) ==
    IF e # NoErr
    THEN /\ pc' = [pc EXCEPT ![r] = "cleanSrc"]
         /\ err' = [err EXCEPT ![r] = e]
         /\ UNCHANGED step
    ELSE Goto(r, "delJob")
AfterJobWaitUncheckedWhenAsync(r, e) ==
    IF e # NoErr /\ mode[r] = "sync" THEN ReturnFrom(r, e, "waitJob") ELSE Goto(r, "delJob")

\* CreatePVC after checkJob returned e.
AfterJobWait(r, e) ==
    IF e # NoErr THEN ReturnFrom(r, e, "waitJob") ELSE Goto(r, "delJob")

CheckJob(r) ==
    /\ pc[r] = "waitJob"
    /\ \E fails \in BOOLEAN :
          LET p == poll[r]
              timedOut == p.attempt > p.maxAttempts
              g == GetJob(fails)
              t == CheckJobTurn(p, g)
          IN /\ poll' = [poll EXCEPT ![r] = t.poll]
             /\ seen' = [seen EXCEPT ![r] =
                           [(IF timedOut THEN @ ELSE [ObserveJob(@, g) EXCEPT !.pollErr = g.err])
                               EXCEPT !.jobWaitErr = IF t.ret THEN t.err ELSE @]]
             /\ UNCHANGED calls
             /\ IF t.ret THEN AfterJobWait(r, t.err) ELSE UNCHANGED <<pc, err, step>>
    /\ UNCHANGED <<pvc, job, bucket, cfg, req, active, mode, response, size, logs, pods>>
    /\ Touch

\* ------------------------------------------------- CreatePVC, steps 5 to 9
\* Status.Phase of the pod of a job with status j.
PodPhase(j) ==
    IF j.succeeded > 0 THEN "Succeeded"
    ELSE IF j.failed > 0 THEN "Failed" ELSE "Pending"

\* The volume "srcpvc" of the job's pod template.
JobSpecificationReadOnly(srcPVCName) == [claimName |-> srcPVCName, readOnly |-> TRUE]
JobSpecification(srcPVCName) == [claimName |-> srcPVCName, readOnly |-> FALSE]

\* jobsClient.Create and, on success, the start of checkJob(runEst): the
\* job controller starts the job's pod, which carries the job's labels.
CreateJob(r) ==
    /\ pc[r] = "createJob"
    /\ \E fails \in BOOLEAN :
          LET e == CreateJobErr(fails) IN
          IF e # NoErr
          THEN /\ pc' = [pc EXCEPT ![r] = "cleanSrc"]
               /\ err' = [err EXCEPT ![r] = e]
               /\ logs' = [logs EXCEPT ![r] = @ \cup {"could not create job"}]
               /\ seen' = [seen EXCEPT ![r].jobErr = e]
               /\ UNCHANGED <<job, poll, step, pods>>
          ELSE /\ job' = [exists |-> TRUE, succeeded |-> 0, failed |-> 0, owner |-> r,
                          spec |-> JobSpecification(SrcName),
                          env |-> JobContainerEnv(req[r])]
               /\ pods' = Append(pods, PodPhase(NoJob))
               /\ poll' = [poll EXCEPT ![r] =
                             [NoPoll EXCEPT !.name = JobName,
                                            !.maxAttempts = MaxAttempts(RunEst(size[r].sz))]]
               /\ Goto(r, "waitJob")
               /\ UNCHANGED <<logs, seen>>
    /\ Call(r, "create:" \o JobName)
    /\ UNCHANGED <<pvc, bucket, cfg, req, active, mode, response, size>>
    /\ Touch

\* pvcClient.Delete on a claim: the object goes at once, or stays with its
\* deletion timestamp set until its finalizers are gone.
Deleted(c, immediate) ==
    IF immediate THEN NoClaim ELSE [c EXCEPT !.terminating = TRUE]

\* The return after "clean up on fail": err, whatever cleanErr is.
AfterCleanSrcReturningCleanErr(r, e, cleanErr) == ReturnFrom(r, cleanErr, "createJob")
AfterCleanSrc(r, e, cleanErr) == ReturnFrom(r, e, "createJob")

\* "clean up on fail": the log is written when err, the job error, is set.
CleanSrc(r) ==
    /\ pc[r] = "cleanSrc"
    /\ \E fails \in BOOLEAN, immediate \in BOOLEAN :
          LET cleanErr == DeleteErr(pvc[SrcName].exists, fails) IN
          /\ pvc' = [pvc EXCEPT ![SrcName] = IF cleanErr = NoErr THEN Deleted(@, immediate) ELSE @]
          /\ logs' = [logs EXCEPT ![r] = IF err[r] # NoErr THEN @ \cup {"could not delete pvc"} ELSE @]
          /\ AfterCleanSrc(r, err[r], cleanErr)
    /\ Call(r, "delete:" \o SrcName)
    /\ UNCHANGED <<job, bucket, cfg, req, active, mode, response, size, poll, seen, pods>>
    /\ Touch

\* What follows "cleanup job": the final claim, whatever the delete gave.
AfterDeleteJobReturning(r, e) ==
    IF e # NoErr THEN ReturnFrom(r, e, "delJob") ELSE Goto(r, "createFin")
AfterDeleteJob(r, e) == Goto(r, "createFin")

\* "cleanup job"
DeleteJob(r) ==
    /\ pc[r] = "delJob"
    /\ \E fails \in BOOLEAN :
          LET e == DeleteErr(job.exists, fails) IN
          /\ job' = IF e = NoErr THEN NoJob ELSE job
          /\ logs' = [logs EXCEPT ![r] = IF e # NoErr THEN @ \cup {"unable to cleanup job"} ELSE @]
          /\ AfterDeleteJob(r, e)
    /\ Call(r, "delete:" \o JobName)
    /\ UNCHANGED <<pvc, bucket, cfg, req, active, mode, response, size, poll, seen, pods>>
    /\ Touch

\* The return when the final claim's create failed ("@TODO if error clean
\* up src PVC").
AfterFinalCreateFailedCleaningUp(r, e) ==
    /\ pc' = [pc EXCEPT ![r] = "delSrc"]
    /\ UNCHANGED <<err, step>>
AfterFinalCreateFailed(r, e) == ReturnFrom(r, e, "createFin")

\* pvcSpecification.Spec
PvcSpecificationNoSource(storageQtyBuffer) ==
    [accessModes |-> <<"ReadOnlyMany">>, dataSource |-> "", storage |-> storageQtyBuffer]
PvcSpecification(storageQtyBuffer) ==
    [accessModes |-> <<"ReadOnlyMany">>, dataSource |-> SrcName, storage |-> storageQtyBuffer]

\* "Create roxPVC from srcPVC" and the start of the second checkPVC.
CreateFinal(r) ==
    /\ pc[r] = "createFin"
    /\ \E fails \in BOOLEAN :
          LET e == CreateErr(Name, fails) IN
          IF e # NoErr
          THEN /\ AfterFinalCreateFailed(r, e)
               /\ logs' = [logs EXCEPT ![r] = @ \cup {"unable to create PVC"}]
               /\ seen' = [seen EXCEPT ![r].finErr = e]
               /\ UNCHANGED <<pvc, poll>>
          ELSE /\ pvc' = [pvc EXCEPT ![Name] =
                            [exists |-> TRUE, phase |-> "Pending",
                             terminating |-> FALSE, owner |-> r,
                             spec |-> PvcSpecification(size[r].qty),
                             meta |-> PvcObjectMeta(req[r], size[r].sz, size[r].cnt)]]
               /\ poll' = [poll EXCEPT ![r] = [NoPoll EXCEPT !.name = FinalWaitName]]
               /\ Goto(r, "bindFin")
               /\ UNCHANGED <<logs, seen>>
    /\ Call(r, "create:" \o Name)
    /\ UNCHANGED <<job, bucket, cfg, req, active, mode, response, size, pods>>
    /\ Touch

\* What follows "delete srcPVC": the patch, whether or not the claim is
\* gone.
AfterDeleteSrcPatchingIfLeft(r, gone) ==
    IF gone THEN ReturnFrom(r, NoErr, "done") ELSE Goto(r, "patchSrc")
AfterDeleteSrc(r, gone) == Goto(r, "patchSrc")

\* "delete srcPVC"
DeleteSrc(r) ==
    /\ pc[r] = "delSrc"
    /\ \E fails \in BOOLEAN, immediate \in BOOLEAN :
          LET e == DeleteErr(pvc[SrcName].exists, fails) IN
          /\ pvc' = [pvc EXCEPT ![SrcName] = IF e = NoErr THEN Deleted(@, immediate) ELSE @]
          /\ logs' = [logs EXCEPT ![r] = IF e # NoErr THEN @ \cup {"unable to delete source PVC"} ELSE @]
          /\ seen' = [seen EXCEPT ![r].srcGone = ~pvc'[SrcName].exists]
          /\ AfterDeleteSrc(r, ~pvc'[SrcName].exists)
    /\ Call(r, "delete:" \o SrcName)
    /\ UNCHANGED <<job, bucket, cfg, req, active, mode, response, size, poll, pods>>
    /\ Touch

\* pvcClient.Patch with "remove /metadata/finalizers/0": a claim waiting
\* for its finalizer is released.
Patched(c) == IF c.terminating THEN NoClaim ELSE c

\* The last statement of CreatePVC: return nil, whatever the patch gave.
AfterPatchPropagating(r, e) == ReturnFrom(r, e, "done")
AfterPatch(r, e) == ReturnFrom(r, NoErr, "done")

\* "patch pvc to remove finalizers for deletion", then return nil.
PatchSrc(r) ==
    /\ pc[r] = "patchSrc"
    /\ \E fails \in BOOLEAN :
          LET e == PatchErr(SrcName, fails) IN
          /\ pvc' = [pvc EXCEPT ![SrcName] = IF e = NoErr THEN Patched(@) ELSE @]
          /\ logs' = [logs EXCEPT ![r] = IF e # NoErr THEN @ \cup {"unable to patch source PVC"} ELSE @]
          /\ AfterPatch(r, e)
    /\ seen' = [seen EXCEPT ![r].srcGone = FALSE]
    /\ Call(r, "patch:" \o SrcName)
    /\ UNCHANGED <<job, bucket, cfg, req, active, mode, response, size, poll, pods>>
    /\ Touch

\* ------------------------------------------------ the cluster's controllers
\* The volume binder: a claim's Status.Phase as checkPVC reads it.
Bind(n) ==
    /\ pvc[n].exists /\ pvc[n].phase = "Pending"
    /\ pvc' = [pvc EXCEPT ![n].phase = "Bound"]
    /\ UNCHANGED <<job, bucket, cfg, req, active, pc, mode, response, err, step, size, poll, calls, seen, logs, pods>>
    /\ Touch

Lose(n) ==
    /\ pvc[n].exists /\ pvc[n].phase = "Bound"
    /\ pvc' = [pvc EXCEPT ![n].phase = "Lost"]
    /\ UNCHANGED <<job, bucket, cfg, req, active, pc, mode, response, err, step, size, poll, calls, seen, logs, pods>>
    /\ Touch

\* The finalizer of a claim being deleted is removed by its controller.
Finalize(n) ==
    /\ pvc[n].exists /\ pvc[n].terminating
    /\ pvc' = [pvc EXCEPT ![n] = NoClaim]
    /\ UNCHANGED <<job, bucket, cfg, req, active, pc, mode, response, err, step, size, poll, calls, seen, logs, pods>>
    /\ Touch

\* The job controller: Status.Succeeded and Status.Failed as checkJob reads them.
JobSucceeds ==
    /\ job.exists /\ job.succeeded < MaxCount
    /\ job' = [job EXCEPT !.succeeded = @ + 1]
    /\ pods' = [pods EXCEPT ![Len(pods)] = PodPhase(job')]
    /\ UNCHANGED <<pvc, bucket, cfg, req, active, pc, mode, response, err, step, size, poll, calls, seen, logs>>
    /\ Touch

JobFails ==
    /\ job.exists /\ job.failed < MaxCount
    /\ job' = [job EXCEPT !.failed = @ + 1]
    /\ pods' = [pods EXCEPT ![Len(pods)] = PodPhase(job')]
    /\ UNCHANGED <<pvc, bucket, cfg, req, active, pc, mode, response, err, step, size, poll, calls, seen, logs>>
    /\ Touch

\* The kubelet reports the job's pod running.
PodRuns ==
    /\ job.exists /\ pods # <<>> /\ pods[Len(pods)] = "Pending"
    /\ pods' = [pods EXCEPT ![Len(pods)] = "Running"]
    /\ UNCHANGED <<pvc, job, bucket, cfg, req, active, pc, mode, response, err, step, size, poll, calls, seen, logs>>
    /\ Touch

\* The pods a deleted job left behind are removed.
PodRemoved ==
    /\ ~job.exists /\ pods # <<>>
    /\ pods' = <<>>
    /\ UNCHANGED <<pvc, job, bucket, cfg, req, active, pc, mode, response, err, step, size, poll, calls, seen, logs>>
    /\ Touch

\* --------------------------------------------------------------- GetStatus
\* podClient.List with the label selector: on an error client-go hands back
\* an empty, non-nil list.
ListPods(fails) ==
    IF fails THEN [err |-> ErrGateway, items |-> <<>>]
    ELSE [err |-> NoErr, items |-> pods]

\* The report GetStatus builds from the list answer l and the get answer g,
\* statement by statement.
StatusReport(l, g) ==
    LET listed == IF l.err # NoErr
                  THEN [NoReport EXCEPT !.InjectorHasError = TRUE, !.InjectorError = l.err]
                  ELSE NoReport
        none == IF Len(l.items) < 1
                THEN [listed EXCEPT !.InjectorHasError = TRUE,
                                    !.InjectorError = "no injectors found"]
                ELSE listed
        state == IF Len(l.items) > 0
                 THEN [none EXCEPT !.InjectorState = l.items[1]]
                 ELSE none
        got == IF g.err # NoErr
               THEN [state EXCEPT !.PVCHasError = TRUE, !.PVCError = g.err]
               ELSE state
    IN [got EXCEPT !.PVCStatus = g.phase]

\* The error GetStatus returns: "return sr, nil".
GetStatusErrPropagating(l, g) == g.err
GetStatusErr(l, g) == NoErr

\* The claim GetStatus looks up: pvcRequestConfig.Name.
StatusClaimStaging == SrcName
StatusClaim == Name

\* The gateway calls GetStatus issues, in order.
StatusCallsDeleting == <<"list:pods", "get:" \o Name, "delete:" \o Name>>
StatusCalls == <<"list:pods", "get:" \o StatusClaim>>

\* The claims once the calls cs have been served: a delete removes its claim.
AfterCalls(cs) ==
    [n \in ClaimNames |->
        IF \E i \in 1..Len(cs) : cs[i] = "delete:" \o n THEN NoClaim ELSE pvc[n]]

GetStatus ==
    /\ \E listFails \in BOOLEAN, getFails \in BOOLEAN :
          LET l == ListPods(listFails)
              g == Get(StatusClaim, getFails)
              again == status.made /\ ~status.changed
          IN status' = [made |-> TRUE,
                        report |-> StatusReport(l, g),
                        err |-> GetStatusErr(l, g),
                        calls |-> StatusCalls,
                        podCount |-> Len(pods),
                        listErr |-> l.err,
                        claimErr |-> g.err,
                        afterDone |-> \E r \in Runs : pc[r] = "Done",
                        changed |-> FALSE,
                        again |-> again,
                        prev |-> IF again THEN status.report ELSE NoReport,
                        sameAnswers |-> /\ again
                                        /\ l.err = status.listErr
                                        /\ g.err = status.claimErr]
    /\ pvc' = AfterCalls(StatusCalls)
    /\ UNCHANGED <<job, bucket, cfg, req, active, pc, mode, response, err, step, size, poll, calls, seen, logs, pods>>

\* ------------------------------------- the earlier, single-claim CreatePVC
\* One claim, named Name, written and read by a job of the same name.
\* "get bucket size" and the storage quantity.
EarlierSizing(r) ==
    /\ r \in active
    /\ pc[r] = "idle"
    /\ \E clientFails \in BOOLEAN :
          LET res == GetSize(clientFails, bucket) IN
          /\ IF res.err # NoErr
             THEN /\ ReturnFrom(r, res.err, "size")
                  /\ UNCHANGED size
             ELSE /\ Goto(r, "createOne")
                  /\ size' = [size EXCEPT ![r] =
                                [NoSize EXCEPT !.cnt = res.cnt, !.sz = res.sz,
                                    !.qty = StorageQtyBuffer(res.sz, cfg.VolumeOveragePercent)]]
          /\ calls' = [calls EXCEPT ![r] = IF clientFails THEN @ ELSE Append(@, "list")]
    /\ UNCHANGED <<pvc, job, bucket, cfg, req, active, mode, response, poll, seen, logs, pods>>
    /\ Touch

\* The one claim's Spec.
EarlierPvcSpecification(storageQty) ==
    [accessModes |-> <<"ReadWriteOnce", "ReadOnlyMany">>, dataSource |-> "",
     storage |-> storageQty]

\* "create a PersistentVolumeClaim sized for the bucket data"
EarlierCreateClaim(r) ==
    /\ pc[r] = "createOne"
    /\ \E fails \in BOOLEAN :
          LET e == CreateErr(Name, fails) IN
          IF e # NoErr
          THEN /\ ReturnFrom(r, e, "createSrc")
               /\ UNCHANGED pvc
          ELSE /\ pvc' = [pvc EXCEPT ![Name] =
                            [exists |-> TRUE, phase |-> "Pending",
                             terminating |-> FALSE, owner |-> r,
                             spec |-> EarlierPvcSpecification(size[r].qty),
                             meta |-> PvcObjectMeta(req[r], size[r].sz, size[r].cnt)]]
               /\ Goto(r, "jobOne")
    /\ Call(r, "create:" \o Name)
    /\ UNCHANGED <<job, bucket, cfg, req, active, mode, response, size, poll, seen, logs, pods>>
    /\ Touch

\* "create a Job with MinIO client Pod attached to the new pvc"; when the
\* create succeeds CreatePVC returns nil.
EarlierCreateJob(r) ==
    /\ pc[r] = "jobOne"
    /\ \E fails \in BOOLEAN :
          LET e == CreateJobErr(fails) IN
          IF e # NoErr
          THEN /\ pc' = [pc EXCEPT ![r] = "cleanOne"]
               /\ err' = [err EXCEPT ![r] = e]
               /\ logs' = [logs EXCEPT ![r] = @ \cup {"could not create job"}]
               /\ seen' = [seen EXCEPT ![r].jobErr = e]
               /\ UNCHANGED <<job, step, pods>>
          ELSE /\ job' = [exists |-> TRUE, succeeded |-> 0, failed |-> 0, owner |-> r,
                          spec |-> JobSpecification(Name),
                          env |-> JobContainerEnv(req[r])]
               /\ pods' = Append(pods, PodPhase(NoJob))
               /\ ReturnFrom(r, NoErr, "done")
               /\ UNCHANGED <<logs, seen>>
    /\ Call(r, "create:" \o Name \o "(job)")
    /\ UNCHANGED <<pvc, bucket, cfg, req, active, mode, response, size, poll>>
    /\ Touch

\* What CreatePVC returns after "clean up pvc": "err := pvcClient.Delete"
\* declares a new err inside the if block, and both returns give that one.
EarlierAfterClean(r, e, cleanErr) == ReturnFrom(r, cleanErr, "createJob")

\* "clean up pvc"
EarlierCleanClaim(r) ==
    /\ pc[r] = "cleanOne"
    /\ \E fails \in BOOLEAN, immediate \in BOOLEAN :
          LET cleanErr == DeleteErr(pvc[Name].exists, fails) IN
          /\ pvc' = [pvc EXCEPT ![Name] = IF cleanErr = NoErr THEN Deleted(@, immediate) ELSE @]
          /\ logs' = [logs EXCEPT ![r] =
                        IF cleanErr # NoErr THEN @ \cup {"could not delete pvc"} ELSE @]
          /\ EarlierAfterClean(r, err[r], cleanErr)
    /\ Call(r, "delete:" \o Name)
    /\ UNCHANGED <<job, bucket, cfg, req, active, mode, response, size, poll, seen, pods>>
    /\ Touch

\* ------------------------------------------------------------------- Next
Workflow(r) ==
    \/ ValidateName(r)
    \/ ValidateSrc(r)
    \/ Sizing(r)
    \/ CreateSrc(r)
    \/ CheckPVC(r)
    \/ CreateJob(r)
    \/ CleanSrc(r)
    \/ CheckJob(r)
    \/ DeleteJob(r)
    \/ CreateFinal(r)
    \/ DeleteSrc(r)
    \/ PatchSrc(r)

Cluster ==
    \/ \E n \in ClaimNames : Bind(n) \/ Lose(n) \/ Finalize(n)
    \/ JobSucceeds
    \/ JobFails

Next ==
    \/ \E r \in Runs : CreatePVCHandler(r)
    \/ \E r \in Runs : CreatePVCHandlerRespond(r)
    \/ \E r \in Runs : CreatePVCAsyncHandler(r)
    \/ \E r \in Runs : CreatePVCAsyncHandlerRespond(r)
    \/ \E r \in Runs : Workflow(r)
    \/ Cluster

Spec == Init /\ [][Next]_vars

\* Two requests for the same name received by the synchronous endpoint, whose
\* CreatePVC calls interleave.
NextRace ==
    \/ \E r \in Runs : CreatePVCHandler(r)
    \/ \E r \in Runs : CreatePVCHandlerRespond(r)
    \/ \E r \in Runs : Workflow(r)
    \/ Cluster

SpecRace == InitRace /\ [][NextRace]_vars

\* Two requests for the same name, the second one received after CreatePVC
\* has returned for the first.
NextLater ==
    \/ CreatePVCHandler(1)
    \/ CreatePVCAsyncHandler(1)
    \/ pc[1] \in {"Done", "Failed"} /\ CreatePVCHandler(2)
    \/ pc[1] \in {"Done", "Failed"} /\ CreatePVCAsyncHandler(2)
    \/ \E r \in Runs : CreatePVCHandlerRespond(r)
    \/ \E r \in Runs : CreatePVCAsyncHandlerRespond(r)
    \/ \E r \in Runs : Workflow(r)
    \/ Cluster

SpecLater == InitRace /\ [][NextLater]_vars

\* Two requests for the same volume and the same objects that differ in
\* s3_key and s3_secret only; the first is served, in an empty namespace.
InitCreds ==
    /\ InitCommon
    /\ pvc = [n \in ClaimNames |-> NoClaim]
    /\ bucket = StatusBucket
    /\ active = {1}
    /\ cfg = DefaultConfig
    /\ \E k \in S3Keys, s \in S3Secrets :
          req = [r \in Runs |-> IF r = 1 THEN [DefaultRequest EXCEPT !.S3Key = k, !.S3Secret = s]
                                ELSE DefaultRequest]

SpecCreds == InitCreds /\ [][Next]_vars

\* One request served by the earlier CreatePVC.
NextEarlier ==
    \/ \E r \in Runs : EarlierSizing(r)
    \/ \E r \in Runs : EarlierCreateClaim(r)
    \/ \E r \in Runs : EarlierCreateJob(r)
    \/ \E r \in Runs : EarlierCleanClaim(r)

SpecEarlier == Init /\ [][NextEarlier]_vars

\* One request against an empty namespace, with status queries at any time.
InitStatus ==
    /\ InitCommon
    /\ pvc = [n \in ClaimNames |-> NoClaim]
    /\ bucket = StatusBucket
    /\ active = {1}
    /\ cfg = DefaultConfig
    /\ req = [r \in Runs |-> DefaultRequest]

NextStatus ==
    \/ Next
    \/ GetStatus
    \/ PodRuns
    \/ PodRemoved

SpecStatus == InitStatus /\ [][NextStatus]_vars

\* One request up to the end of its sizing, for a range of payload sizes
\* (one object each) and of configurations.
InitSizing ==
    /\ InitCommon
    /\ pvc = [n \in ClaimNames |-> NoClaim]
    /\ bucket \in {<<[size |-> s, err |-> NoErr]>> : s \in PayloadSizes}
    /\ active = {1}
    /\ cfg \in [VolumeOveragePercent : OveragePcts, AvgMPS : Rates]
    /\ req = [r \in Runs |-> DefaultRequest]

NextSizing ==
    \/ \E r \in Runs : CreatePVCHandler(r)
    \/ \E r \in Runs : CreatePVCAsyncHandler(r)
    \/ \E r \in Runs : ValidateName(r)
    \/ \E r \in Runs : ValidateSrc(r)
    \/ \E r \in Runs : Sizing(r)

SpecSizing == InitSizing /\ [][NextSizing]_vars

TypeOK ==
    /\ \A r \in Runs : pc[r] \in {"idle", "rejected", "valName", "valSrc", "size", "createSrc",
                                  "bindSrc", "createJob", "cleanSrc", "waitJob", "delJob",
                                  "createFin", "bindFin", "delSrc", "patchSrc", "Done", "Failed",
                                  "createOne", "jobOne", "cleanOne"}
    /\ \A n \in ClaimNames : pvc[n].phase \in {"", "Pending", "Bound", "Lost"}

\* ================================================================ claims
Terminal == {"Done", "Failed"}
CreateOrder == <<"create:" \o SrcName, "create:" \o JobName, "create:" \o Name>>
IsCreate(c) == c \in {CreateOrder[i] : i \in 1..3}
IsReclaim(c) == c \in {"delete:" \o SrcName, "patch:" \o SrcName}
Creates(r) == SelectSeq(calls[r], IsCreate)
Issued(r, c) == \E i \in 1..Len(calls[r]) : calls[r][i] = c
Owns(r) == (\E n \in ClaimNames : pvc[n].exists /\ pvc[n].owner = r) \/ (job.exists /\ job.owner = r)

\* C1: CreatePVC returns nil only if one of the run's gets observed the
\* final claim "vol" in phase Bound (the code waits on "vol-src" instead).
C1_DoneOnlyAfterFinalBound ==
    \A r \in Runs : pc[r] = "Done" => seen[r].finBound

\* C2: step 9 (the delete and the patch of "vol-src" after the final claim
\* was created) begins only once the final claim was observed Bound.
C2_ReclaimOnlyAfterFinalBound ==
    \A r \in Runs :
        (Issued(r, "create:" \o Name) /\ \E i \in 1..Len(calls[r]) : IsReclaim(calls[r][i]))
            => seen[r].finBound

\* C3: the creates of a run are issued in the order staging claim, copy job,
\* final claim; the job is created only after a get saw the staging claim
\* Bound, the final claim only after a get saw the job succeeded and not
\* failed; a run that failed at a step has issued the creates up to that step
\* and none of a later step.
CreatesAtFailure(s) ==
    CASE s \in {"validate", "size"} -> 0
      [] s \in {"createSrc", "bindSrc"} -> 1
      [] s \in {"createJob", "waitJob"} -> 2
      [] OTHER -> 3
C3_CreatesInOrder ==
    \A r \in Runs :
        LET cs == Creates(r) IN
        /\ Len(cs) <= 3
        /\ cs = SubSeq(CreateOrder, 1, Len(cs))
        /\ Len(cs) >= 2 => seen[r].srcBound
        /\ Len(cs) = 3 => seen[r].jobOK
        /\ pc[r] = "Failed" => Len(cs) = CreatesAtFailure(step[r])
C3_Witness ==
    \E r \in Runs : pc[r] = "Done" /\ Len(Creates(r)) = 3 /\ seen[r].srcBound /\ seen[r].jobOK

\* C4 as stated: a claim "vol" or "vol-src" that exists when validation looks
\* it up makes CreatePVC return the conflict error with no listing and no create.
Conflicted(r) ==
    /\ pc[r] = "Failed" /\ step[r] = "validate"
    /\ err[r] \in {ErrFoundName, ErrFoundSrc}
    /\ calls[r] = <<>>
ListingFails == \E i \in 1..Len(bucket) : bucket[i].err # NoErr
C5_ListingErrorCreatesNothing ==
    \A r \in Runs :
        (Issued(r, "list") /\ ListingFails)
            => /\ pc[r] = "Failed" /\ step[r] = "size" /\ err[r] = ErrList
               /\ calls[r] = <<"list">>
               /\ ~Owns(r)
C5_Witness ==
    \E r \in Runs :
        /\ Len(bucket) = 2 /\ bucket[1].err = NoErr /\ bucket[2].err # NoErr
        /\ Issued(r, "list") /\ err[r] = ErrList

\* C6: of two runs that both passed validation, a create of "vol-src" succeeds
\* only while no such claim exists; the run whose create is rejected returns an
\* error having issued nothing but its listing and that create (no job, no
\* final claim, no delete or patch of the other run's staging claim).
C6_RejectedRunTouchesNothing ==
    /\ [](\A r \in Runs :
            seen[r].srcRejected
                => /\ pc[r] = "Failed" /\ err[r] # NoErr
                   /\ calls[r] = <<"list", "create:" \o SrcName>>
                   /\ ~Owns(r))
    /\ [][\A r \in Runs :
            (pc[r] = "createSrc" /\ pc'[r] = "bindSrc")
                => (~pvc[SrcName].exists /\ pvc'[SrcName].owner = r)]_vars
C6_Witness ==
    \E r1, r2 \in Runs :
        /\ r1 # r2
        /\ seen[r1].srcRejected /\ err[r1] = ErrExists /\ pc[r1] = "Failed"
        /\ ~seen[r1].valFound /\ ~seen[r2].valFound
        /\ pvc[SrcName].exists /\ pvc[SrcName].owner = r2
        /\ pc[r2] = "bindSrc"

\* C7: once every run for the name has returned, the staging claim and the
\* final claim the runs created do not both exist.
C7_NoCoexistenceAfterReturn ==
    (\A r \in active : pc[r] \in Terminal \cup {"rejected"})
        => ~(/\ pvc[SrcName].exists /\ pvc[SrcName].owner \in Runs
             /\ pvc[Name].exists /\ pvc[Name].owner \in Runs)

\* C8: the asynchronous entry point answers 200 with an empty body whatever
\* the workflow does or returns, and never waits for it; a malformed body is
\* answered 400 and starts no workflow.
C8_AsyncResponse ==
    \A r \in Runs :
        mode[r] = "async"
            => /\ pc[r] = "rejected"
                    => /\ response[r] = [code |-> 400, body |-> ErrBody]
                       /\ calls[r] = <<>> /\ step[r] = "none" /\ seen[r] = NoSeen
               /\ (pc[r] # "rejected" /\ response[r] # NoResponse)
                    => response[r] = [code |-> 200, body |-> ""]
C8_Witness ==
    \E r \in Runs :
        /\ mode[r] = "async" /\ response[r].code = 200
        /\ pc[r] = "Failed" /\ err[r] = ErrFoundName

\* C9: the synchronous entry point answers only after CreatePVC returned:
\* a run that failed is answered 400 with the error it returned, and 200 is
\* sent only for a run that ended in Done.
C9_SyncResponse ==
    \A r \in Runs :
        (mode[r] = "sync" /\ pc[r] # "rejected" /\ response[r] # NoResponse)
            => /\ pc[r] \in Terminal
               /\ pc[r] = "Failed" => (err[r] # NoErr /\ response[r] = [code |-> 400, body |-> err[r]])
               /\ pc[r] = "Done" => response[r] = [code |-> 200, body |-> ""]
               /\ response[r].code = 200 => pc[r] = "Done"
C9_Witness ==
    \E r \in Runs :
        /\ mode[r] = "sync" /\ pc[r] = "Failed" /\ err[r] = ErrJobTime
        /\ response[r] = [code |-> 400, body |-> ErrJobTime]

\* C10: a claim-bound wait makes at most 11 checks and a job wait at most as
\* many checks as the attempt count computed from the payload size.
C10_ChecksWithinAttemptCount ==
    \A r \in Runs :
        /\ poll[r].name \in ClaimNames => poll[r].checks <= Len(retrySecs)
        /\ poll[r].name = JobName => poll[r].checks <= MaxAttempts(RunEst(size[r].sz))

\* C11: a job that a check finds with failed > 0 makes CreatePVC return
\* "job failed"; the run creates no final claim and deletes nothing, and the
\* staging claim it created is still there.
C11_JobFailedLeavesStaging ==
    \A r \in Runs :
        seen[r].jobFailed
            => /\ pc[r] = "Failed" /\ step[r] = "waitJob" /\ err[r] = ErrJobFailed
               /\ calls[r] = <<"list", "create:" \o SrcName, "create:" \o JobName>>
               /\ pvc[SrcName].exists /\ pvc[SrcName].owner = r
               /\ ~(pvc[Name].exists /\ pvc[Name].owner = r)
C11_Witness ==
    \E r \in Runs :
        /\ seen[r].jobFailed /\ err[r] = ErrJobFailed /\ pvc[SrcName].exists
        /\ job.exists /\ job.failed > 0 /\ job.succeeded = 0

\* C12: a first bound wait that times out, or whose get fails, makes CreatePVC
\* return that error; the run has issued its listing and the staging create
\* only (no job, no final claim, no delete) and the staging claim stays.
C12_StagingWaitFailureLeavesStaging ==
    \A r \in Runs :
        seen[r].srcWaitErr # NoErr
            => /\ pc[r] = "Failed" /\ step[r] = "bindSrc"
               /\ err[r] = seen[r].srcWaitErr
               /\ err[r] \in {ErrBound, ErrGateway, ErrNotFound}
               /\ calls[r] = <<"list", "create:" \o SrcName>>
               /\ pvc[SrcName].exists /\ pvc[SrcName].owner = r
               /\ ~job.exists /\ ~(pvc[Name].exists /\ pvc[Name].owner = r)
C12_Witness ==
    \E r \in Runs :
        /\ seen[r].srcWaitErr = ErrBound /\ pc[r] = "Failed"
        /\ poll[r].checks = Len(retrySecs)
        /\ pvc[SrcName].exists /\ pvc[SrcName].phase # "Bound"

\* C13: when the job's create fails, the run issues one delete of the staging
\* claim and returns the create's error, whether or not that delete worked;
\* it never creates the final claim.
C13_JobCreateFailureDeletesStaging ==
    \A r \in Runs :
        seen[r].jobErr # NoErr
            => LET upToJob == <<"list", "create:" \o SrcName, "create:" \o JobName>> IN
               /\ ~Issued(r, "create:" \o Name)
               /\ \/ pc[r] = "cleanSrc" /\ calls[r] = upToJob
                  \/ /\ pc[r] = "Failed" /\ step[r] = "createJob"
                     /\ err[r] = seen[r].jobErr
                     /\ calls[r] = Append(upToJob, "delete:" \o SrcName)
C13_Witness ==
    \E r \in Runs :
        /\ seen[r].jobErr # NoErr /\ pc[r] = "Failed"
        /\ Issued(r, "delete:" \o SrcName)
        /\ pvc[SrcName].exists /\ ~pvc[SrcName].terminating

\* C14: when the final claim's create fails, CreatePVC returns that error
\* having issued no delete and no patch of the staging claim, which remains.
C14_FinalCreateFailureLeavesStaging ==
    \A r \in Runs :
        seen[r].finErr # NoErr
            => /\ pc[r] = "Failed" /\ step[r] = "createFin"
               /\ err[r] = seen[r].finErr
               /\ SelectSeq(calls[r], IsReclaim) = <<>>
               /\ calls[r][Len(calls[r])] = "create:" \o Name
               /\ pvc[SrcName].exists /\ ~pvc[SrcName].terminating
               /\ pvc[SrcName].owner = r
C14_Witness ==
    \E r \in Runs :
        /\ seen[r].finErr = ErrGateway /\ pc[r] = "Failed"
        /\ pvc[SrcName].exists /\ ~pvc[Name].exists

\* C15: once the second bound wait has returned nil, the run issues the
\* delete of the staging claim, then the patch, once each, and returns nil
\* whether or not either of them failed.
C15_ReclaimErrorsNotReturned ==
    \A r \in Runs :
        seen[r].finWaitOK
            => LET reclaims == SelectSeq(calls[r], IsReclaim) IN
               \/ pc[r] = "delSrc" /\ reclaims = <<>>
               \/ pc[r] = "patchSrc" /\ reclaims = <<"delete:" \o SrcName>>
               \/ /\ pc[r] = "Done" /\ step[r] = "done" /\ err[r] = NoErr
                  /\ reclaims = <<"delete:" \o SrcName, "patch:" \o SrcName>>
C15_Witness ==
    \E r \in Runs :
        /\ seen[r].finWaitOK /\ pc[r] = "Done"
        /\ "unable to delete source PVC" \in logs[r]
        /\ "unable to patch source PVC" \in logs[r]

\* The seconds slept over the first n entries of the schedule.
RECURSIVE ScheduleSecs(_)
ScheduleSecs(n) == IF n = 0 THEN 0 ELSE ScheduleSecs(n - 1) + retrySecs[n]

\* C16: a claim-bound wait sleeps the next entry of 1,2,2,4,4,4,8,8,8,8,8
\* before each check, one check per sleep; it returns the time-out error after
\* exactly 11 sleeps and 11 checks, and returns from the k-th check, the first
\* that does not find the claim short of Bound, after exactly k sleeps.
C16_ClaimWaitSchedule ==
    \A r \in Runs :
        poll[r].name \in ClaimNames
            => LET p == poll[r] IN
               /\ p.sleeps = p.checks
               /\ p.checks <= Len(retrySecs)
               /\ p.secs = ScheduleSecs(p.sleeps)
               /\ IF pc[r] \in {"bindSrc", "bindFin"}
                  THEN p.attempt = p.checks
                  ELSE IF pc[r] = "Failed" /\ step[r] \in {"bindSrc", "bindFin"} /\ err[r] = ErrBound
                  THEN p.attempt = Len(retrySecs) /\ p.checks = Len(retrySecs)
                  ELSE p.checks = p.attempt + 1
C16_Witness ==
    \E r \in Runs :
        /\ pc[r] = "createJob" /\ poll[r].name = SrcName
        /\ poll[r].checks = Len(retrySecs) /\ poll[r].sleeps = Len(retrySecs)
        /\ poll[r].secs = 57 /\ seen[r].srcBound

\* C17: a job wait that ends in "job is unable to complete in allotted time"
\* has checked the job exactly N = max(6, ceil(1.5 * runEst / 5)) times, one
\* check per 5-second sleep.
C17_JobWaitChecksExactlyN ==
    \A r \in Runs :
        (pc[r] = "Failed" /\ step[r] = "waitJob" /\ err[r] = ErrJobTime)
            => /\ poll[r].checks = MaxAttempts(RunEst(size[r].sz))
               /\ poll[r].sleeps = poll[r].checks

\* C18: every GetStatus call returns a nil error; when there is no injector
\* pod the report has InjectorHasError with "no injectors found", when the
\* claim's get fails it has PVCHasError with the get's error, and neither
\* flag is set by the other lookup.
C18_StatusNeverFails ==
    status.made
        => /\ status.err = NoErr
           /\ status.podCount = 0
                => /\ status.report.InjectorHasError
                   /\ status.report.InjectorError = "no injectors found"
           /\ (status.podCount > 0 /\ status.listErr = NoErr)
                => /\ ~status.report.InjectorHasError
                   /\ status.report.InjectorState \in {"Pending", "Running", "Succeeded", "Failed"}
           /\ status.claimErr # NoErr
                => /\ status.report.PVCHasError
                   /\ status.report.PVCError = status.claimErr
                   /\ status.report.PVCStatus = ""
           /\ status.claimErr = NoErr => ~status.report.PVCHasError
C18_Witness ==
    /\ status.made /\ status.podCount = 0 /\ status.claimErr = ErrGateway
    /\ status.report.InjectorHasError /\ status.report.PVCHasError
    /\ \E r \in Runs : pc[r] = "bindFin"

C20_StatusAfterDoneIsBound ==
    (/\ status.made /\ status.afterDone
     /\ status.listErr = NoErr /\ status.podCount > 0 /\ status.claimErr = NoErr)
        => /\ status.report.PVCStatus = "Bound"
           /\ ~status.report.PVCHasError
           /\ ~status.report.InjectorHasError

\* ceil(n / q) on digit sequences, for 0 < q < 2^16.
LCeilDiv(a, q) ==
    LET d == LDiv(a, q) IN IF d.rem > 0 THEN LAdd(d.quot, <<1>>, 0) ELSE d.quot

\* ceil(sz * 1.048576 * (1 + pct / 100)) in exact arithmetic:
\* 1.048576 = 16384 / 15625.
ExactQty(sz, pct) ==
    LVal(LCeilDiv(LCeilDiv(LMul(LMul(Limbs(sz), Limbs(16384)), Limbs(100 + pct)), 15625), 100))

Sized(r) == pc[r] = "createSrc"

QtyTable == [s \in PayloadSizes, p \in OveragePcts |-> StorageQty(s, p)]

\* C21: the capacity computed for the staging claim is
\* ceil(total_bytes * 1.048576 * (1 + overage_percent / 100)), it does not
\* decrease when either input grows, and 9,000,000 bytes at 25% give 11,796,480.
C21_CapacityIsExactCeil ==
    /\ \A r \in Runs :
          Sized(r) => size[r].qty = ExactQty(size[r].sz, cfg.VolumeOveragePercent)
    /\ \A s1 \in PayloadSizes, s2 \in PayloadSizes, p1 \in OveragePcts, p2 \in OveragePcts :
          (s1 <= s2 /\ p1 <= p2) => QtyTable[s1, p1] <= QtyTable[s2, p2]
    /\ QtyTable[9000000, 25] = 11796480

\* ceil(3 * sz / (10 * rate * 1048576)): the attempts for the exact quotient.
ExactAttempts(sz, rate) ==
    LVal(LCeilDiv(LCeilDiv(LCeilDiv(LMul(Limbs(sz), Limbs(3)), 1024), 1024), 10 * rate))

\* C22 as stated: with the run estimate the quotient total_bytes / (rate *
\* 1048576) itself, the attempt bound the workflow's estimate leads to is
\* max(6, ceil(quotient * 1.5 / 5)).
C22_EstimateIsExactQuotient ==
    \A r \in Runs :
        Sized(r)
            => MaxAttempts(size[r].runEst)
                  = Max(MinJobAttempts, ExactAttempts(size[r].sz, cfg.AvgMPS))

\* C22, amended: the run estimate is total_bytes / (rate * 1048576) cut down
\* to whole seconds, and the attempt bound of the job wait is
\* max(6, ceil(estimate * 1.5 / 5)) of that whole number.
C22_EstimateIsWholeSeconds ==
    \A r \in Runs :
        Sized(r)
            => LET perSec == cfg.AvgMPS * BytesPerMB
                   est == size[r].runEst
               IN /\ est * perSec <= size[r].sz
                  /\ size[r].sz - est * perSec < perSec
                  /\ MaxAttempts(est) = Max(6, (3 * est + 9) \div 10)
C22_Witness ==
    \E r \in Runs :
        /\ Sized(r) /\ size[r].sz = 318976819 /\ cfg.AvgMPS = 13
        /\ size[r].runEst = 23 /\ MaxAttempts(size[r].runEst) = 7
        /\ ExactAttempts(size[r].sz, cfg.AvgMPS) = 8

\* The entries of a listing in front of its first error entry (all of them
\* when there is none), and their total size.
Healthy(listing) ==
    IF \E i \in 1..Len(listing) : listing[i].err # NoErr
    THEN SubSeq(listing, 1,
                (CHOOSE i \in 1..Len(listing) :
                    /\ listing[i].err # NoErr
                    /\ \A j \in 1..(i - 1) : listing[j].err = NoErr) - 1)
    ELSE listing
RECURSIVE TotalSize(_)
TotalSize(l) == IF l = <<>> THEN 0 ELSE l[1].size + TotalSize(Tail(l))

\* C23 as stated: when GetSize returns a listing error, the count and the
\* byte total it returns with it are not the ones accumulated so far.
C23_NoPartialTotals ==
    \A r \in Runs :
        (seen[r].sized /\ seen[r].sizeRet.err # NoErr)
            => seen[r].sizeRet.cnt = 0 /\ seen[r].sizeRet.sz = 0

\* C23, amended: GetSize stops at the first error entry of the listing and
\* returns that entry's error together with the count and byte total of the
\* entries in front of it; CreatePVC uses none of them and returns the error
\* with the listing as its only call.
C23_FailFastTotalsDiscarded ==
    \A r \in Runs :
        seen[r].sized
            => LET ret == seen[r].sizeRet
                   head == Healthy(bucket)
               IN /\ ret.cnt = Len(head) /\ ret.sz = TotalSize(head)
                  /\ ret.err = IF Len(head) < Len(bucket) THEN bucket[Len(head) + 1].err ELSE NoErr
                  /\ ret.err # NoErr
                       => /\ pc[r] = "Failed" /\ step[r] = "size" /\ err[r] = ret.err
                          /\ size[r] = NoSize /\ calls[r] = <<"list">>
C23_Witness ==
    \E r \in Runs :
        /\ seen[r].sized /\ seen[r].sizeRet.err = ErrList
        /\ seen[r].sizeRet.cnt = 1 /\ seen[r].sizeRet.sz > 0
        /\ pc[r] = "Failed" /\ size[r] = NoSize

\* The last gateway call other than a get that the run issued.
LastCall(r) == IF calls[r] = <<>> THEN "" ELSE calls[r][Len(calls[r])]

\* seen[r].srcGone holds between the delete and the patch of step 9: the
\* staging claim was gone when the delete call returned.
\* C24 as stated: the finalizer-removal patch is issued only if the staging
\* claim still existed when the delete call of step 9 returned.
C24_PatchOnlyIfClaimLeft ==
    [][\A r \in Runs :
          calls'[r] = Append(calls[r], "patch:" \o SrcName) => ~seen[r].srcGone]_vars

\* C24, amended: the patch follows the delete of step 9 in every run,
\* whether or not the delete removed the claim at once; on a claim that is
\* already gone it fails with not-found, which is logged and not returned.
C24_PatchAlwaysFollowsDelete ==
    /\ [](\A r \in Runs :
            (Issued(r, "delete:" \o SrcName) /\ step[r] # "createJob" /\ pc[r] # "patchSrc")
                => /\ pc[r] = "Done" /\ err[r] = NoErr
                   /\ LastCall(r) = "patch:" \o SrcName
                   /\ calls[r][Len(calls[r]) - 1] = "delete:" \o SrcName)
    /\ [][\A r \in Runs :
            (pc[r] = "patchSrc" /\ seen[r].srcGone /\ pc'[r] # pc[r])
                => /\ calls'[r] = Append(calls[r], "patch:" \o SrcName)
                   /\ "unable to patch source PVC" \in logs'[r]
                   /\ pc'[r] = "Done" /\ err'[r] = NoErr]_vars
C24_Witness ==
    \E r \in Runs :
        /\ pc[r] = "patchSrc" /\ seen[r].srcGone /\ ~pvc[SrcName].exists
        /\ LastCall(r) = "delete:" \o SrcName
        /\ "unable to delete source PVC" \notin logs[r]

\* The number of times the run issued the call c.
Count(r, c) == Len(SelectSeq(calls[r], LAMBDA x : x = c))

\* C25: once the job wait has succeeded the run issues exactly one delete
\* of the copy job; when that delete fails the failure is logged, the run
\* does not end there, and the create of the final claim is its next call.
C25_JobDeleteFailureOnlyLogged ==
    \A r \in Runs :
        /\ (seen[r].jobOK /\ pc[r] # "delJob")
              => /\ Count(r, "delete:" \o JobName) = 1
                 /\ step[r] # "delJob"
        /\ ~seen[r].jobOK => Count(r, "delete:" \o JobName) = 0
        /\ ("unable to cleanup job" \in logs[r] /\ pc[r] # "createFin")
              => /\ seen[r].jobOK
                 /\ \E i \in 1..(Len(calls[r]) - 1) :
                       /\ calls[r][i] = "delete:" \o JobName
                       /\ calls[r][i + 1] = "create:" \o Name
C25_Witness ==
    \E r \in Runs :
        /\ pc[r] = "Done" /\ err[r] = NoErr
        /\ "unable to cleanup job" \in logs[r]
        /\ job.exists /\ pvc[Name].exists /\ pvc[Name].owner = r

\* What a run holds of its own: its position, its result, the calls it has
\* issued and its poll and sizing state; the entry point it came through is
\* not part of it.
Local(r) ==
    [pc |-> pc[r], err |-> err[r], step |-> step[r], calls |-> calls[r],
     poll |-> poll[r], size |-> size[r]]

\* The responses the request body, the object store or the gateway can
\* give to the step the run is about to take.
Offered(r) ==
    LET at == pc[r] IN
    IF at = "idle" THEN {[bodyOK |-> b] : b \in BOOLEAN}
    ELSE IF at = "valName" THEN {Get(Name, f) : f \in BOOLEAN}
    ELSE IF at = "valSrc" THEN {Get(SrcName, f) : f \in BOOLEAN}
    ELSE IF at = "size" THEN {[clientFails |-> f, res |-> GetSize(f, bucket)] : f \in BOOLEAN}
    ELSE IF at = "createSrc" THEN {[err |-> CreateErr(SrcName, f)] : f \in BOOLEAN}
    ELSE IF at \in {"bindSrc", "bindFin"} THEN {Get(poll[r].name, f) : f \in BOOLEAN}
    ELSE IF at = "createJob" THEN {[err |-> CreateJobErr(f)] : f \in BOOLEAN}
    ELSE IF at = "waitJob" THEN {GetJob(f) : f \in BOOLEAN}
    ELSE IF at \in {"cleanSrc", "delSrc"} THEN {[err |-> DeleteErr(pvc[SrcName].exists, f)] : f \in BOOLEAN}
    ELSE IF at = "delJob" THEN {[err |-> DeleteErr(job.exists, f)] : f \in BOOLEAN}
    ELSE IF at = "createFin" THEN {[err |-> CreateErr(Name, f)] : f \in BOOLEAN}
    ELSE IF at = "patchSrc" THEN {[err |-> PatchErr(SrcName, f)] : f \in BOOLEAN}
    ELSE {}

Ret(l, e, s) ==
    [l EXCEPT !.pc = IF e = NoErr THEN "Done" ELSE "Failed", !.err = e, !.step = s]
To(l, next) == [l EXCEPT !.pc = next]
Called(l, c) == [l EXCEPT !.calls = Append(@, c)]
Polling(l, n, max) == [l EXCEPT !.poll = [NoPoll EXCEPT !.name = n, !.maxAttempts = max]]

\* CreatePVC as one machine: the local state that follows l when the step
\* at l.pc is given the response x.
Feed(l, x) ==
    LET at == l.pc IN
    IF at = "idle" THEN To(l, IF x.bodyOK THEN "valName" ELSE "rejected")
    ELSE IF at = "valName"
    THEN IF x.found THEN Ret(l, ErrFoundName, "validate") ELSE To(l, "valSrc")
    ELSE IF at = "valSrc"
    THEN IF x.found THEN Ret(l, ErrFoundSrc, "validate") ELSE To(l, "size")
    ELSE IF at = "size"
    THEN LET c == IF x.clientFails THEN l ELSE Called(l, "list") IN
         IF x.res.err # NoErr THEN Ret(c, x.res.err, "size")
         ELSE [To(c, "createSrc") EXCEPT !.size =
                  [cnt |-> x.res.cnt, sz |-> x.res.sz, runEst |-> RunEst(x.res.sz),
                   qty |-> StorageQtyBuffer(x.res.sz, cfg.VolumeOveragePercent)]]
    ELSE IF at = "createSrc"
    THEN LET c == Called(l, "create:" \o SrcName) IN
         IF x.err # NoErr THEN Ret(c, x.err, "createSrc")
         ELSE Polling(To(c, "bindSrc"), SrcName, NoPoll.maxAttempts)
    ELSE IF at \in {"bindSrc", "bindFin"}
    THEN LET t == CheckPVCTurn(l.poll, x)
             p == [l EXCEPT !.poll = t.poll]
         IN IF ~t.ret THEN p
            ELSE IF t.err # NoErr THEN Ret(p, t.err, at)
            ELSE To(p, IF at = "bindSrc" THEN "createJob" ELSE "delSrc")
    ELSE IF at = "createJob"
    THEN LET c == Called(l, "create:" \o JobName) IN
         IF x.err # NoErr THEN [c EXCEPT !.pc = "cleanSrc", !.err = x.err]
         ELSE Polling(To(c, "waitJob"), JobName, MaxAttempts(RunEst(l.size.sz)))
    ELSE IF at = "cleanSrc" THEN Ret(Called(l, "delete:" \o SrcName), l.err, "createJob")
    ELSE IF at = "waitJob"
    THEN LET t == CheckJobTurn(l.poll, x)
             p == [l EXCEPT !.poll = t.poll]
         IN IF ~t.ret THEN p
            ELSE IF t.err # NoErr THEN Ret(p, t.err, "waitJob")
            ELSE To(p, "delJob")
    ELSE IF at = "delJob" THEN To(Called(l, "delete:" \o JobName), "createFin")
    ELSE IF at = "createFin"
    THEN LET c == Called(l, "create:" \o Name) IN
         IF x.err # NoErr THEN Ret(c, x.err, "createFin")
         ELSE Polling(To(c, "bindFin"), FinalWaitName, NoPoll.maxAttempts)
    ELSE IF at = "delSrc" THEN To(Called(l, "delete:" \o SrcName), "patchSrc")
    ELSE IF at = "patchSrc" THEN Ret(Called(l, "patch:" \o SrcName), NoErr, "done")
    ELSE l

\* C26: every step of a run, whichever entry point started it, takes the
\* run's local state l to Feed(l, x) for a response x offered to that step,
\* and Feed does not read the entry point: a synchronous and an asynchronous
\* run given the same responses issue the same calls and end in the same
\* state. Past the entry no step of the workflow writes the response or the
\* entry point.
C26_SameMachineBothEntryPoints ==
    [][\A r \in Runs :
          Local(r)' # Local(r)
              => /\ \E x \in Offered(r) : Local(r)' = Feed(Local(r), x)
                 /\ pc[r] # "idle" => (mode'[r] = mode[r] /\ response'[r] = response[r])
                 /\ (pc[r] = "idle" /\ pc'[r] = "valName") => response'[r] = NoResponse]_vars
C26_Witness ==
    \E r \in Runs :
        /\ mode[r] = "async" /\ response[r] = [code |-> 200, body |-> ""]
        /\ pc[r] = "Done" /\ err[r] = NoErr
        /\ calls[r] = <<"list", "create:" \o SrcName, "create:" \o JobName,
                        "delete:" \o JobName, "create:" \o Name,
                        "delete:" \o SrcName, "patch:" \o SrcName>>

\* C27: a staging claim the run created is "vol-src" with access mode
\* ReadWriteOnce and no data source; the job it created is "vol-injector"
\* and mounts "vol-src" writable; the final claim it created is "vol" with
\* access mode ReadOnlyMany, data source "vol-src" and the storage request
\* of the staging claim, which is the capacity computed at sizing.
C27_CreatedObjects ==
    \A r \in Runs :
        /\ (pvc[SrcName].exists /\ pvc[SrcName].owner = r)
              => /\ Issued(r, "create:" \o SrcName)
                 /\ pvc[SrcName].spec.accessModes = <<"ReadWriteOnce">>
                 /\ pvc[SrcName].spec.dataSource = ""
                 /\ pvc[SrcName].spec.storage = size[r].qty
        /\ (job.exists /\ job.owner = r)
              => /\ Issued(r, "create:" \o JobName)
                 /\ job.spec = [claimName |-> SrcName, readOnly |-> FALSE]
        /\ (pvc[Name].exists /\ pvc[Name].owner = r)
              => /\ Issued(r, "create:" \o Name)
                 /\ pvc[Name].spec.accessModes = <<"ReadOnlyMany">>
                 /\ pvc[Name].spec.dataSource = SrcName
                 /\ pvc[Name].spec.storage = size[r].qty
                 /\ (pvc[SrcName].exists /\ pvc[SrcName].owner = r)
                       => pvc[Name].spec.storage = pvc[SrcName].spec.storage
C27_Witness ==
    \E r \in Runs :
        /\ pvc[SrcName].exists /\ pvc[SrcName].owner = r
        /\ pvc[Name].exists /\ pvc[Name].owner = r
        /\ pvc[Name].spec.storage = pvc[SrcName].spec.storage
        /\ pvc[Name].spec.storage > 0
        /\ pvc[Name].spec.accessModes # pvc[SrcName].spec.accessModes
        /\ job.exists /\ job.owner = r /\ job.spec.claimName = SrcName

\* C28: a get that returns an error during a claim-bound wait or the job
\* wait ends the wait at that check: CreatePVC returns that error from the
\* step of the wait, the attempt counter is not advanced and no further
\* check is made.
C28_PollAbortsOnGetError ==
    \A r \in Runs :
        seen[r].pollErr # NoErr
            => /\ seen[r].pollErr \in {ErrNotFound, ErrGateway}
               /\ pc[r] = "Failed" /\ err[r] = seen[r].pollErr
               /\ step[r] \in {"bindSrc", "waitJob", "bindFin"}
               /\ poll[r].attempt = poll[r].checks - 1
C28_Witness ==
    \E r \in Runs :
        /\ seen[r].pollErr = ErrGateway /\ pc[r] = "Failed" /\ err[r] = ErrGateway
        /\ step[r] = "bindSrc" /\ poll[r].checks = 2 /\ poll[r].secs = 3
        /\ pvc[SrcName].exists /\ pvc[SrcName].phase = "Pending"

\* C29: a validation lookup that returns an error, not-found or any other,
\* counts as "no such claim": the run does not return from validation on
\* it, goes on to the listing and, when the listing gives a size, to the
\* create of the staging claim.
C29_LookupErrorMeansAbsent ==
    \A r \in Runs :
        /\ seen[r].nameErred
              => /\ err[r] # ErrFoundName
                 /\ pc[r] \notin {"idle", "rejected", "valName"}
        /\ seen[r].srcErred
              => /\ seen[r].nameErred
                 /\ step[r] # "validate" /\ err[r] \notin {ErrFoundName, ErrFoundSrc}
                 /\ pc[r] \notin {"idle", "rejected", "valName", "valSrc"}
                 /\ pc[r] = "size" \/ step[r] = "size" \/ Issued(r, "list")
                 /\ (seen[r].sized /\ seen[r].sizeRet.err = NoErr /\ pc[r] # "createSrc")
                       => Issued(r, "create:" \o SrcName)
C29_Witness ==
    \E r \in Runs :
        /\ seen[r].nameErred /\ seen[r].srcErred
        /\ seen[r].valExisted /\ pvc[Name].exists /\ pvc[Name].owner # r
        /\ pvc[SrcName].exists /\ pvc[SrcName].owner = r
        /\ calls[r] = <<"list", "create:" \o SrcName>>

\* C30: when checkJob returns an error, be it "job failed", the time-out or
\* the error of a get, CreatePVC returns it at once: the run has issued its
\* listing and two creates and no delete or patch, and the job and the
\* staging claim it created still exist.
C30_JobWaitFailureLeavesJobAndStaging ==
    \A r \in Runs :
        seen[r].jobWaitErr # NoErr
            => /\ seen[r].jobWaitErr \in {ErrJobFailed, ErrJobTime, ErrGateway, ErrNotFound}
               /\ pc[r] = "Failed" /\ step[r] = "waitJob" /\ err[r] = seen[r].jobWaitErr
               /\ calls[r] = <<"list", "create:" \o SrcName, "create:" \o JobName>>
               /\ job.exists /\ job.owner = r
               /\ pvc[SrcName].exists /\ pvc[SrcName].owner = r /\ ~pvc[SrcName].terminating
C30_Witness ==
    \E r \in Runs :
        /\ seen[r].jobWaitErr = ErrJobTime /\ pc[r] = "Failed"
        /\ ~seen[r].jobFailed /\ seen[r].pollErr = NoErr
        /\ job.exists /\ job.owner = r /\ pvc[SrcName].exists /\ pvc[SrcName].owner = r
        /\ ~Issued(r, "delete:" \o JobName) /\ ~Issued(r, "delete:" \o SrcName)

\* The first run has returned from one of the places that leave a claim
\* behind, and a claim "vol" or "vol-src" is there.
LeftBehind ==
    /\ pc[1] \in Terminal
    /\ step[1] \in {"bindSrc", "waitJob", "createFin", "bindFin", "done"}
    /\ pvc[Name].exists \/ pvc[SrcName].exists

C32_FailedWinsOverSucceeded ==
    \A r \in Runs :
        seen[r].jobBoth
            => /\ pc[r] = "Failed" /\ step[r] = "waitJob" /\ err[r] = ErrJobFailed
               /\ ~seen[r].jobOK
               /\ ~Issued(r, "delete:" \o JobName) /\ ~Issued(r, "create:" \o Name)
               /\ job.exists => (job.failed > 0 /\ job.succeeded > 0)
C32_Witness ==
    \E r \in Runs :
        /\ seen[r].jobBoth /\ pc[r] = "Failed" /\ err[r] = ErrJobFailed
        /\ job.exists /\ job.succeeded > 0 /\ job.failed > 0
        /\ ~pvc[Name].exists

\* C33: a job wait that times out has slept once more than it has checked:
\* the turn that returns the time-out sleeps and then returns without a
\* get, whatever the job's status is by then.
C33_TimeoutSleepsOnceMore ==
    /\ [](\A r \in Runs :
            (pc[r] = "Failed" /\ step[r] = "waitJob" /\ err[r] = ErrJobTime)
                => /\ poll[r].sleeps = poll[r].checks + 1
                   /\ poll[r].secs = JobAttemptInterval * poll[r].sleeps
                   /\ ~seen[r].jobOK /\ ~seen[r].jobFailed)
    /\ [][\A r \in Runs :
            (pc[r] = "waitJob" /\ poll[r].attempt > poll[r].maxAttempts /\ poll'[r] # poll[r])
                => /\ pc'[r] = "Failed" /\ err'[r] = ErrJobTime
                   /\ poll'[r].sleeps = poll[r].sleeps + 1
                   /\ poll'[r].checks = poll[r].checks
                   /\ seen'[r] = [seen[r] EXCEPT !.jobWaitErr = ErrJobTime]]_vars
C33_Witness ==
    \E r \in Runs :
        /\ pc[r] = "Failed" /\ step[r] = "waitJob" /\ err[r] = ErrJobTime
        /\ poll[r].sleeps = poll[r].checks + 1
        /\ job.exists /\ job.succeeded > 0 /\ job.failed = 0
        /\ ~seen[r].jobOK


\* C34: GetStatus gets the claim `name` and never the staging claim: a status
\* query made while a run is in flight, the staging claim exists and the final
\* claim does not, reports PVCHasError with a claim error and no phase.
StagingOnly ==
    /\ \E r \in Runs : pc[r] \in {"bindSrc", "createJob", "cleanSrc", "waitJob", "delJob", "createFin"}
    /\ pvc[SrcName].exists
    /\ ~pvc[Name].exists
C34_StatusIgnoresStaging ==
    /\ [](status.made => \A i \in 1..Len(status.calls) : status.calls[i] # "get:" \o SrcName)
    /\ [][(StagingOnly /\ status' # status /\ ~status'.changed)
            => /\ status'.report.PVCHasError
               /\ status'.report.PVCError \in {ErrNotFound, ErrGateway}
               /\ status'.report.PVCStatus = ""]_vars
C34_Witness ==
    /\ StagingOnly
    /\ pc[1] = "waitJob" /\ pvc[SrcName].phase = "Bound"
    /\ status.made /\ ~status.changed
    /\ status.claimErr = ErrNotFound
    /\ status.report.PVCHasError /\ status.report.PVCStatus = ""
    /\ status.report.PVCError = ErrNotFound


\* C35: the staging claim and the final claim made for a request are the
\* same for every other request that differs from it in s3_key and s3_secret
\* only: their name, labels, annotations, access mode and capacity are
\* determined by the volume name, the endpoint, bucket and prefix and the
\* listing; the credentials are in the value of the job container's
\* MC_HOST_objstore and in no claim.
SameButCredentials(p, q) ==
    [p EXCEPT !.S3Key = "", !.S3Secret = ""] = [q EXCEPT !.S3Key = "", !.S3Secret = ""]
PublicMeta(n, rq, r) ==
    [name |-> n,
     labels |-> {<<"pvci.txn2.com/service", "pvci">>, <<"pvci.txn2.com/version", "0.0.0">>},
     annotations |->
        {<<"pvci.txn2.com/requested_size", ToString(size[r].sz)>>,
         <<"pvci.txn2.com/object_count", ToString(size[r].cnt)>>,
         <<"pvci.txn2.com/origin", rq.S3Endpoint \o "/" \o rq.S3Bucket \o "/" \o rq.S3Prefix>>}]
C35_ClaimsIndependentOfCredentials ==
    \A r \in Runs, q \in Runs :
        SameButCredentials(req[r], req[q])
            => /\ (pvc[SrcName].exists /\ pvc[SrcName].owner = r)
                    => /\ pvc[SrcName].meta = PublicMeta(SrcName, req[q], r)
                       /\ pvc[SrcName].spec.accessModes = <<"ReadWriteOnce">>
                       /\ pvc[SrcName].spec.storage = size[r].qty
               /\ (pvc[Name].exists /\ pvc[Name].owner = r)
                    => /\ pvc[Name].meta = PublicMeta(Name, req[q], r)
                       /\ pvc[Name].spec.accessModes = <<"ReadOnlyMany">>
                       /\ pvc[Name].spec.storage = size[r].qty
               /\ (job.exists /\ job.owner = r)
                    => job.env = <<<<"MC_HOST_objstore",
                                     "http://" \o req[r].S3Key \o ":" \o req[r].S3Secret
                                         \o "@" \o req[r].S3Endpoint>>>>
C35_Witness ==
    /\ req[1].S3Key = "AK2" /\ req[1].S3Secret = "SK2"
    /\ req[2].S3Key = "AK1" /\ req[2].S3Secret = "SK1"
    /\ SameButCredentials(req[1], req[2])
    /\ pc[1] = "bindFin"
    /\ pvc[SrcName].exists /\ pvc[SrcName].owner = 1
    /\ pvc[Name].exists /\ pvc[Name].owner = 1
    /\ pvc[Name].meta.annotations = pvc[SrcName].meta.annotations
    /\ <<"pvci.txn2.com/origin", "minio:9000/datasets/vol">> \in pvc[Name].meta.annotations
    /\ <<"pvci.txn2.com/requested_size", "4500000">> \in pvc[SrcName].meta.annotations


\* C36: in the earlier single-claim CreatePVC, a run whose job create failed
\* returns a non-nil error, whether or not the delete of the claim succeeded.
C36_JobCreateFailureSurfaced ==
    \A r \in Runs :
        (pc[r] \in Terminal /\ seen[r].jobErr # NoErr)
            => /\ pc[r] = "Failed"
               /\ err[r] # NoErr


\* C37: on the path of a failed job create, "could not delete pvc" is logged
\* if and only if the delete of the staging claim returned an error, that is
\* if and only if the delete left the claim as it was.
C37_DeleteLogIffDeleteFailed ==
    [][\A r \in Runs :
          (pc[r] = "cleanSrc" /\ pc'[r] # "cleanSrc" /\ pvc[SrcName].exists)
              => (("could not delete pvc" \in logs'[r]) <=> (pvc'[SrcName] = pvc[SrcName]))]_vars

====
